---- MODULE Spec2Model ----
(***************************************************************************)
(* Copy-trading engine of polystation (src/src/commands/copy.rs): the      *)
(* monitor loop, the planner, the settlement matcher, the per-mode         *)
(* movement log, the state-file mirror, the HTTP control plane and the     *)
(* record / settle CLI commands.                                           *)
(*                                                                         *)
(* Decimals are fixed-point integers in units of 1/DecScale; the values    *)
(* enumerated below are chosen so that every product and quotient the      *)
(* model computes is exact at that scale, as it is in rust_decimal.        *)
(* Option<T> is a sequence of length 0 (None) or 1 (Some).                 *)
(* A market slug is the sequence of its dash-separated segments.           *)
(*                                                                         *)
(* Spec is the whole program. It is checked in parts: SpecEngine (the      *)
(* server process: control plane and MaxTasks monitor tasks, upstream      *)
(* calls that succeed), SpecCli (the server with one monitor task, and     *)
(* record / settle CLI processes on the same files), SpecFaults (the       *)
(* server with one monitor task, upstream calls that fail, a leader value  *)
(* of zero, live / dry-run / simulation configurations, the clock),        *)
(* SpecLive (one monitor task with the progress the code's timeouts        *)
(* guarantee), SpecLog (append_db_movement and settle_db_movement of       *)
(* several writers, split at the file read and the file write), and        *)
(* SpecMatcher, SpecPlanner and SpecSlug (the settlement matcher, the      *)
(* planner and the slug normalizer as functions of their inputs).          *)
(* A monitor task takes one step per stretch of code between two awaits;   *)
(* outside SpecLog, file reads and whole-file writes are atomic.           *)
(***************************************************************************)
EXTENDS Integers, Sequences, FiniteSets, TLC

VARIABLES
    config,            \* RuntimeState.config : Option<CopyConfig>
    monitoring,        \* RuntimeState.monitoring
    current_poll_interval_ms, \* RuntimeState.current_poll_interval_ms
    last_seen_hashes,  \* RuntimeState.last_seen_hashes
    config_file,       \* copy_trader.json on disk : Option<CopyConfig>
    state_file,        \* copy_trader_state.json : CopyState.movements
    db,                \* [mode -> rows of copy_trader_<mode>_db.jsonl]
    clock,             \* Utc::now(), epoch seconds
    tasks,             \* the spawned monitor_loop tasks and their locals
    plan_runs,         \* history: compute_plan calls of the monitor per trade hash
    rows_written,      \* history: movement rows the monitor appended per trade hash
    attributed,        \* history: movements settled from each upstream closed position
    settle_lines,      \* history: settlement-log lines the monitor appended per movement id
    boot,              \* run_ui: "loaded" between its two load_config calls, else "up"
    boot_log,          \* history: the movement ids in the logs when the process started
    restarts,          \* history: number of times the server process was started again
    conn,              \* the accepted connection that handle_http is serving
    mutex,             \* who holds app.runtime: "free", "http" or a monitor task
    http_out,          \* what the last connection got back
    cli_out,           \* what the last status or plan command of the CLI ended with
    warning,           \* RuntimeState.warning : Option<kind of message>
    orders,            \* history: outcomes of the orders submitted per trade hash
    stopped,           \* history: per task, a stop found it running and it has not checked since
    writers,           \* movement-log specification: processes inside a log operation
    log_appends,       \* movement-log specification: the rows pushed, in append order
    plan_in,           \* planner specification: the arguments of compute_plan
    plan_out,          \* planner specification: Option<PlanResult or error>
    slug_in,           \* slug specification: the slug given to normalize_market_slug
    slug_out,          \* slug specification: the results of applying it repeatedly
    book_in,           \* book specification: the trade, the size and the order book probed
    book_out,          \* book specification: Option<result of the probe>
    fee_in,            \* fee specification: the market and the copied value
    fee_out,           \* fee specification: Option<what the fee filter made of them>
    m_state,           \* matcher specification: the CopyState given to the matcher
    m_closed,          \* matcher specification: the closed positions given to it
    m_out              \* matcher specification: Option<result of the run>

vars == <<config, monitoring, current_poll_interval_ms, last_seen_hashes, config_file,
          state_file, db, clock, tasks, plan_runs, rows_written, attributed, settle_lines,
          warning, orders, stopped, writers, log_appends, plan_in, plan_out,
          slug_in, slug_out, m_state, m_closed, m_out, boot, boot_log, restarts,
          conn, mutex, http_out, cli_out, book_in, book_out, fee_in, fee_out>>

mainVars == <<config, monitoring, current_poll_interval_ms, last_seen_hashes, config_file,
              state_file, db, clock, tasks, plan_runs, rows_written, attributed, settle_lines,
              warning, orders, stopped, writers, log_appends, boot, boot_log, restarts,
              conn, mutex, http_out, cli_out>>

mainVarsButLog ==
    <<config, monitoring, current_poll_interval_ms, last_seen_hashes, config_file,
      state_file, db, clock, tasks, plan_runs, rows_written, attributed, settle_lines,
      warning, orders, stopped, boot, boot_log, restarts, conn, mutex, http_out, cli_out>>

matcherVars == <<m_state, m_closed, m_out>>

logVars == <<writers, log_appends>>

plannerVars == <<plan_in, plan_out>>

slugVars == <<slug_in, slug_out>>

bookVars == <<book_in, book_out>>

feeVars == <<fee_in, fee_out>>

bootVars == <<boot, boot_log, restarts>>

httpVars == <<conn, mutex, http_out, cli_out>>

Last(seq) == seq[Len(seq)]

(***************************************************************************)
(* Decimal                                                                 *)
(***************************************************************************)
DecScale == 1000

Dec(n) == n * DecScale

DecMul(a, b) == (a * b) \div DecScale

DecDiv(a, b) == (a * DecScale) \div b

\* Fault: the minimum of two amounts is taken to be the first.
FirstAmount(a, b) == a

DecMin(a, b) == IF a <= b THEN a ELSE b

DecMax(a, b) == IF a >= b THEN a ELSE b

RECURSIVE SumSeq(_)
SumSeq(s) == IF s = <<>> THEN 0 ELSE Head(s) + SumSeq(Tail(s))

(***************************************************************************)
(* Market slugs                                                            *)
(***************************************************************************)
DigitSegments == {"1772278200", "1772278300", "1234567"}

IsAsciiDigits(seg) == seg \in DigitSegments

\* Fault: the last segment is stripped whatever it holds.
StripAnySuffix(slug) ==
    IF Len(slug) < 2 THEN slug ELSE SubSeq(slug, 1, Len(slug) - 1)

normalize_market_slug(slug) ==
    IF Len(slug) < 2
    THEN slug
    ELSE LET suffix == slug[Len(slug)]
             prefix == SubSeq(slug, 1, Len(slug) - 1)
         IN IF Len(suffix) >= 8 /\ IsAsciiDigits(suffix) THEN prefix ELSE slug

(***************************************************************************)
(* Settlement matcher                                                      *)
(***************************************************************************)
movement_timestamp_epoch_seconds(ts) == IF ts >= 0 THEN <<ts>> ELSE <<>>

\* closed_sorted.sort_by_key(|c| c.timestamp): a stable sort. Each element
\* carries src, its index in the upstream response (history only).
InsertByTimestamp(sorted, e) ==
    LET k == Cardinality({i \in 1..Len(sorted) :
                             sorted[i].c.timestamp <= e.c.timestamp})
    IN SubSeq(sorted, 1, k) \o <<e>> \o SubSeq(sorted, k + 1, Len(sorted))

RECURSIVE SortTagged(_, _)
SortTagged(cs, n) ==
    IF n = 0 THEN <<>>
    ELSE InsertByTimestamp(SortTagged(cs, n - 1), [c |-> cs[n], src |-> n])

closed_sorted(closed_positions) == SortTagged(closed_positions, Len(closed_positions))

QueueEntry(e) ==
    [ts |-> e.c.timestamp, roi |-> DecDiv(e.c.realized_pnl, e.c.total_bought),
     src |-> e.src]

QueueKeys(closed_positions) ==
    UNION {{closed_positions[i].slug, normalize_market_slug(closed_positions[i].slug)} :
              i \in 1..Len(closed_positions)}

RECURSIVE QueueOf(_, _)
QueueOf(sorted, k) ==
    IF sorted = <<>> THEN <<>>
    ELSE LET e == Head(sorted)
         IN IF e.c.total_bought > 0
               /\ (e.c.slug = k \/ normalize_market_slug(e.c.slug) = k)
            THEN <<QueueEntry(e)>> \o QueueOf(Tail(sorted), k)
            ELSE QueueOf(Tail(sorted), k)

by_slug(closed_positions) ==
    [k \in QueueKeys(closed_positions) |-> QueueOf(closed_sorted(closed_positions), k)]

\* Fault: the front of the queue is never discarded.
KeepStale(q, movement_ts) == q

RECURSIVE DropStale(_, _)
DropStale(q, movement_ts) ==
    IF q # <<>> /\ Head(q).ts > 0 /\ Head(q).ts < movement_ts
    THEN DropStale(Tail(q), movement_ts)
    ELSE q

pop_eligible_roi(q, movement_ts) ==
    LET d == DropStale(q, movement_ts)
    IN IF d = <<>> THEN [q |-> d, roi |-> <<>>]
       ELSE [q |-> Tail(d), roi |-> <<Head(d)>>]

\* by_slug.get_mut(key).and_then(&mut pop_eligible_roi)
PopAt(queues, key, movement_ts) ==
    IF key \in DOMAIN queues
    THEN LET r == pop_eligible_roi(queues[key], movement_ts)
         IN [queues |-> [queues EXCEPT ![key] = r.q], roi |-> r.roi]
    ELSE [queues |-> queues, roi |-> <<>>]

LookupRoi(queues, movement, movement_ts) ==
    LET raw == PopAt(queues, movement.market, movement_ts)
    IN IF raw.roi # <<>> THEN raw
       ELSE PopAt(raw.queues, normalize_market_slug(movement.market), movement_ts)

RECURSIVE MatchFrom(_, _, _, _, _)
MatchFrom(i, movements, queues, settled, attr) ==
    IF i > Len(movements)
    THEN [movements |-> movements, settled |-> settled, attr |-> attr]
    ELSE LET movement == movements[i]
             mts == movement_timestamp_epoch_seconds(movement.timestamp)
         IN IF movement.settled \/ mts = <<>>
            THEN MatchFrom(i + 1, movements, queues, settled, attr)
            ELSE LET r == LookupRoi(queues, movement, mts[1])
                 IN IF r.roi = <<>>
                    THEN MatchFrom(i + 1, movements, r.queues, settled, attr)
                    ELSE LET done == [movement EXCEPT
                                         !.pnl = DecMul(movement.copied_value, r.roi[1].roi),
                                         !.settled = TRUE]
                         IN MatchFrom(i + 1, [movements EXCEPT ![i] = done], r.queues,
                                      Append(settled, done), Append(attr, r.roi[1].src))

\* Returns the mutated state.movements, the settled movements in state order and,
\* as history, attr[k]: the index in closed_positions of the closure the k-th
\* settled movement was settled from.
settle_open_movements_from_closed_positions(movements, closed_positions) ==
    MatchFrom(1, movements, by_slug(closed_positions), <<>>, <<>>)

(***************************************************************************)
(* Planner                                                                 *)
(***************************************************************************)
UnsettledCopied(movements) ==
    SumSeq([i \in 1..Len(movements) |->
               IF movements[i].settled THEN 0 ELSE movements[i].copied_value])

\* Fault: the exposure test comes before the minimum-copy test.
ReasonExposureFirst(capped, proportional, max_trade, available_exposure, cfg) ==
    IF available_exposure <= 0 THEN "no exposure available"
    ELSE IF capped < cfg.min_copy_usd THEN "below minimum copy threshold"
    ELSE IF proportional > max_trade THEN "capped by max_trade_pct"
    ELSE IF proportional > available_exposure THEN "capped by max_total_exposure_pct"
    ELSE "ok"

PlanReason(capped, proportional, max_trade, available_exposure, cfg) ==
    IF capped < cfg.min_copy_usd THEN "below minimum copy threshold"
    ELSE IF available_exposure <= 0 THEN "no exposure available"
    ELSE IF proportional > max_trade THEN "capped by max_trade_pct"
    ELSE IF proportional > available_exposure THEN "capped by max_total_exposure_pct"
    ELSE "ok"

max_total_exposure(cfg) ==
    DecMul(cfg.allocated_funds, DecDiv(cfg.max_total_exposure_pct, Dec(100)))

compute_plan(cfg, movements, leader_positions_value, leader_movement_value) ==
    IF leader_positions_value <= 0
    THEN [err |-> TRUE, proportional_size |-> 0, capped_size |-> 0,
          available_funds |-> 0, reason |-> "leader-positions-value must be > 0"]
    ELSE LET ratio == DecDiv(cfg.allocated_funds, leader_positions_value)
             proportional == DecMul(leader_movement_value, ratio)
             max_trade == DecMul(cfg.allocated_funds, DecDiv(cfg.max_trade_pct, Dec(100)))
             used_exposure == UnsettledCopied(movements)
             available_exposure == DecMax(max_total_exposure(cfg) - used_exposure, 0)
             capped == DecMin(DecMin(proportional, max_trade), available_exposure)
             reason == PlanReason(capped, proportional, max_trade, available_exposure, cfg)
         IN [err |-> FALSE,
             proportional_size |-> proportional,
             capped_size |-> IF reason = "below minimum copy threshold" THEN 0 ELSE capped,
             available_funds |-> available_exposure,
             reason |-> reason]

(***************************************************************************)
(* Fee filter                                                              *)
(***************************************************************************)
FAST_MARKET_FEE_BPS == 70

BPS_DENOMINATOR == 10000

\* normalized.contains("-updown-5m") || normalized.contains("-updown-15m"):
\* a segment "updown" directly followed by a segment that starts with 5m / 15m.
FastHorizonSegments == {"5m", "15m"}

is_fast_market_with_fee(slug) ==
    LET normalized == normalize_market_slug(slug)
    IN \E i \in 2..(Len(normalized) - 1) :
          normalized[i] = "updown" /\ normalized[i + 1] \in FastHorizonSegments

\* Fault: the basis points are taken for a percentage.
FeeInPercent(market, copied_value) ==
    IF ~is_fast_market_with_fee(market) \/ copied_value <= 0
    THEN <<>>
    ELSE LET fee_rate == DecDiv(Dec(FAST_MARKET_FEE_BPS), Dec(100))
             entry_fee_usd == DecMul(copied_value, fee_rate)
             round_trip_fee_usd == DecMul(entry_fee_usd, Dec(2))
             max_gross_profit_usd == DecMul(copied_value, Dec(1) - 100)
             max_net_profit_usd == max_gross_profit_usd - round_trip_fee_usd
         IN <<[fee_bps |-> FAST_MARKET_FEE_BPS,
               entry_fee_usd |-> entry_fee_usd,
               round_trip_fee_usd |-> round_trip_fee_usd,
               max_gross_profit_usd |-> max_gross_profit_usd,
               max_net_profit_usd |-> max_net_profit_usd]>>

trading_fee_impact_for_movement(market, copied_value) ==
    IF ~is_fast_market_with_fee(market) \/ copied_value <= 0
    THEN <<>>
    ELSE LET fee_rate == DecDiv(Dec(FAST_MARKET_FEE_BPS), Dec(BPS_DENOMINATOR))
             entry_fee_usd == DecMul(copied_value, fee_rate)
             round_trip_fee_usd == DecMul(entry_fee_usd, Dec(2))
             max_gross_profit_usd == DecMul(copied_value, Dec(1) - 100)
             max_net_profit_usd == max_gross_profit_usd - round_trip_fee_usd
         IN <<[fee_bps |-> FAST_MARKET_FEE_BPS,
               entry_fee_usd |-> entry_fee_usd,
               round_trip_fee_usd |-> round_trip_fee_usd,
               max_gross_profit_usd |-> max_gross_profit_usd,
               max_net_profit_usd |-> max_net_profit_usd]>>

\* Fault: the fee of the entry alone is recorded.
EntryFeeRecorded(fee_impact) ==
    IF fee_impact = <<>> THEN 0 ELSE fee_impact[1].entry_fee_usd

\* fee_impact.map(|x| x.round_trip_fee_usd).unwrap_or(Decimal::ZERO)
RecordedFee(fee_impact) ==
    IF fee_impact = <<>> THEN 0 ELSE fee_impact[1].round_trip_fee_usd

\* `if let Some(impact) = fee_impact && impact.max_net_profit_usd <= 0 { continue }`
FeeRejects(fee_impact) ==
    fee_impact # <<>> /\ fee_impact[1].max_net_profit_usd <= 0

(***************************************************************************)
(* Data of the engine                                                      *)
(***************************************************************************)
Modes == {"real", "sim"}

mode_from_simulation(simulation_mode) == IF simulation_mode THEN "sim" ELSE "real"

mode_from_config(cfg) == mode_from_simulation(cfg.simulation_mode)

MovementRecord(movement_id, market, timestamp, copied_value) ==
    [movement_id |-> movement_id, market |-> market, timestamp |-> timestamp,
     copied_value |-> copied_value, simulated_copy_price |-> 0,
     estimated_total_fee_usd |-> 0, settled |-> FALSE, pnl |-> 0]

\* Decimal::to_string and Decimal::from_str_exact(..).unwrap_or(ZERO) of a DbRow field
DecToString(d) == <<"str", d>>

DecFromStr(s) == IF Len(s) = 2 /\ s[1] = "str" THEN s[2] ELSE 0

MarketBase == <<"btc", "updown", "5m">>

MarketRound1 == MarketBase \o <<"1772278200">>

MarketRound2 == MarketBase \o <<"1772278300">>

(***************************************************************************)
(* Initial state: a fresh installation (no config, state or log files) and *)
(* the RuntimeState built by run_ui.                                       *)
(***************************************************************************)
MaxTasks == 2

Tasks == 1..MaxTasks

Hashes == {"h1", "h2"}

\* The movement ids the monitor gives its records, in either mode.
MovementIds == Hashes \cup {"sim-" \o h : h \in Hashes}

ClosedPosition(slug, timestamp, realized_pnl, total_bought) ==
    [slug |-> slug, timestamp |-> timestamp, realized_pnl |-> realized_pnl,
     total_bought |-> total_bought]

\* What the upstream data API may answer (the environment of the engine).
Trade(transaction_hash, slug, size, price) ==
    [transaction_hash |-> transaction_hash, slug |-> slug, size |-> size, price |-> price,
     side |-> IF transaction_hash = "h1" THEN "BUY" ELSE "SELL"]

TradeOf(h) ==
    IF h = "h1" THEN Trade("h1", MarketRound1, Dec(8), 500)
    ELSE Trade(h, MarketRound2, Dec(8), 500)

TradeResponses == {<<>>, <<"h1">>, <<"h1", "h2">>}

UpstreamClosed == {ClosedPosition(MarketBase, 0, Dec(2), Dec(20))}

ClosedResponses == {<<>>} \cup {<<c>> : c \in UpstreamClosed}

LeaderValues == {Dec(10), 0}

default_poll_interval_ms == 2000

min_poll_ms(realtime_mode, simulation_mode) ==
    IF realtime_mode \/ simulation_mode THEN 50 ELSE 500

normalize_poll_ms(poll_ms, realtime_mode, simulation_mode) ==
    IF poll_ms >= min_poll_ms(realtime_mode, simulation_mode)
    THEN poll_ms
    ELSE min_poll_ms(realtime_mode, simulation_mode)

ConfigureArgs(allocated_funds, execute_orders, simulation_mode) ==
    [leader |-> "0x0000000000000000000000000000000000000001",
     allocated_funds |-> allocated_funds,
     max_trade_pct |-> Dec(50),
     max_total_exposure_pct |-> Dec(60),
     min_copy_usd |-> Dec(1),
     poll_interval_secs |-> 2,
     poll_interval_ms |-> <<>>,
     execute_orders |-> execute_orders,
     realtime_mode |-> FALSE,
     simulation_mode |-> simulation_mode]

ConfigurePayloads ==
    {ConfigureArgs(Dec(10), TRUE, FALSE),
     ConfigureArgs(Dec(10), FALSE, TRUE),
     ConfigureArgs(0, FALSE, FALSE)}

\* Fault: the two modes are not checked against each other.
ModesUnchecked(cfg) ==
    /\ cfg.allocated_funds > 0
    /\ \A v \in {cfg.max_trade_pct, cfg.max_total_exposure_pct} : v > 0 /\ v <= Dec(100)
    /\ cfg.min_copy_usd >= 0
    /\ (cfg.poll_interval_ms # <<>>
           => cfg.poll_interval_ms[1] >= min_poll_ms(cfg.realtime_mode, cfg.simulation_mode))

validate_config(cfg) ==
    /\ cfg.allocated_funds > 0
    /\ \A v \in {cfg.max_trade_pct, cfg.max_total_exposure_pct} : v > 0 /\ v <= Dec(100)
    /\ cfg.min_copy_usd >= 0
    /\ ~(cfg.realtime_mode /\ cfg.simulation_mode)
    /\ (cfg.poll_interval_ms # <<>>
           => cfg.poll_interval_ms[1] >= min_poll_ms(cfg.realtime_mode, cfg.simulation_mode))

CopyConfig(cfg) ==
    [leader |-> cfg.leader,
     allocated_funds |-> cfg.allocated_funds,
     max_trade_pct |-> cfg.max_trade_pct,
     max_total_exposure_pct |-> cfg.max_total_exposure_pct,
     min_copy_usd |-> cfg.min_copy_usd,
     poll_interval_secs |-> cfg.poll_interval_secs,
     poll_interval_ms |->
         normalize_poll_ms(IF cfg.poll_interval_ms # <<>> THEN cfg.poll_interval_ms[1]
                           ELSE cfg.poll_interval_secs * 1000,
                           cfg.realtime_mode, cfg.simulation_mode),
     execute_orders |-> cfg.execute_orders,
     realtime_mode |-> cfg.realtime_mode,
     simulation_mode |-> cfg.simulation_mode]

\* History counters stop counting at MaxCount.
MaxCount == 2

Saturate(n) == IF n > MaxCount THEN MaxCount ELSE n

\* Processes that read and rewrite a movement log, and their locals.
MaxWriters == 2

Writers == 1..MaxWriters

IdleWriter == [pc |-> "idle", rows |-> <<>>, pushed |-> <<>>]

\* No connection is being served; nothing was sent back yet.
IdleConn == [pc |-> "idle"]

NoResponse == [status |-> 0]

IdleTask ==
    [pc |-> "none", cfg |-> <<>>, leader_value |-> 0, trades |-> <<>>,
     state |-> <<>>, capped |-> 0, failure |-> <<>>]

MainInit ==
    /\ config = <<>>
    /\ monitoring = FALSE
    /\ current_poll_interval_ms = default_poll_interval_ms
    /\ last_seen_hashes = {}
    /\ config_file = <<>>
    /\ state_file = <<>>
    /\ db = [mode \in Modes |-> <<>>]
    /\ clock = 1
    /\ tasks = [t \in Tasks |-> IdleTask]
    /\ plan_runs = [h \in Hashes |-> 0]
    /\ rows_written = [h \in Hashes |-> 0]
    /\ attributed = [c \in UpstreamClosed |-> 0]
    /\ settle_lines = [id \in MovementIds |-> 0]
    /\ warning = <<>>
    /\ orders = [h \in Hashes |-> <<>>]
    /\ stopped = [t \in Tasks |-> FALSE]
    /\ writers = [w \in Writers |-> IdleWriter]
    /\ log_appends = <<>>
    /\ boot = "up"
    /\ boot_log = {}
    /\ restarts = 0
    /\ conn = IdleConn
    /\ mutex = "free"
    /\ http_out = NoResponse
    /\ cli_out = <<>>

(***************************************************************************)
(* Movement log (copy_trader_<mode>_db.jsonl)                              *)
(***************************************************************************)
DbRow(id, m) ==
    [id |-> id, movement_id |-> m.movement_id, market |-> m.market,
     timestamp |-> m.timestamp, copied_value |-> DecToString(m.copied_value),
     simulated_copy_price |-> DecToString(m.simulated_copy_price),
     estimated_total_fee_usd |-> DecToString(m.estimated_total_fee_usd),
     settled |-> m.settled, pnl |-> DecToString(m.pnl)]

next_db_id(rows) == IF rows = <<>> THEN 1 ELSE rows[Len(rows)].id + 1

\* out.sort_by_key(|x| x.id): a stable sort
InsertById(sorted, r) ==
    LET k == Cardinality({i \in 1..Len(sorted) : sorted[i].id <= r.id})
    IN SubSeq(sorted, 1, k) \o <<r>> \o SubSeq(sorted, k + 1, Len(sorted))

RECURSIVE SortById(_, _)
SortById(rows, n) ==
    IF n = 0 THEN <<>> ELSE InsertById(SortById(rows, n - 1), rows[n])

\* A stable sort leaves a file whose ids never decrease as it is.
read_db_rows(file) ==
    IF \A i \in 1..(Len(file) - 1) : file[i].id <= file[i + 1].id
    THEN file
    ELSE SortById(file, Len(file))

\* Fault: the movement_id lookup of append_db_movement finds nothing.
AlwaysAbsent(rows, movement_id) == TRUE

NoSuchRow(rows, movement_id) ==
    \A i \in 1..Len(rows) : rows[i].movement_id # movement_id

append_db_movement(file, m) ==
    LET rows == read_db_rows(file)
    IN IF NoSuchRow(rows, m.movement_id)
       THEN Append(rows, DbRow(next_db_id(rows), m))
       ELSE file

settle_db_movement(file, movement_id, pnl) ==
    LET rows == read_db_rows(file)
    IN [i \in 1..Len(rows) |->
           IF rows[i].movement_id = movement_id
           THEN [rows[i] EXCEPT !.settled = TRUE, !.pnl = DecToString(pnl)]
           ELSE rows[i]]

\* for movement in settled { settle_db_movement(mode, &movement.movement_id, movement.pnl)? }
RECURSIVE SettleEach(_, _)
SettleEach(file, settled) ==
    IF settled = <<>> THEN file
    ELSE SettleEach(settle_db_movement(file, Head(settled).movement_id, Head(settled).pnl),
                    Tail(settled))

current_mode_from_disk ==
    IF config_file = <<>> THEN "real" ELSE mode_from_config(config_file[1])

\* used_exposure as GET /api/state reports it from the movement log
DbUnsettledCopied(rows) ==
    SumSeq([i \in 1..Len(rows) |->
               IF rows[i].settled THEN 0 ELSE DecFromStr(rows[i].copied_value)])

(***************************************************************************)
(* HTTP control plane                                                      *)
(***************************************************************************)
MaxClock == 2

MaxMovements == 2

LiveTasks == {t \in Tasks : tasks[t].pc # "none"}

\* The runtime, the files and the history of the monitor.
programVars ==
    <<config, monitoring, current_poll_interval_ms, last_seen_hashes, config_file,
      state_file, db, clock, tasks, plan_runs, rows_written, attributed, settle_lines,
      warning, orders, stopped>>

\* The handlers of /api/configure, /api/start and /api/stop take the mutex.
MutexFree == mutex = "free"

\* What POST /api/configure does to the files and the runtime.
ConfigureRoute(args) ==
    /\ IF validate_config(args)
       THEN /\ config_file' = <<CopyConfig(args)>>
            /\ current_poll_interval_ms' = CopyConfig(args).poll_interval_ms
            /\ config' = <<CopyConfig(args)>>
       ELSE UNCHANGED <<config_file, current_poll_interval_ms, config>>
    /\ UNCHANGED <<monitoring, last_seen_hashes, state_file, db, clock, tasks,
                   plan_runs, rows_written, attributed, settle_lines, warning, orders, stopped,
                   matcherVars, logVars, plannerVars, slugVars, bookVars, feeVars,
                   bootVars>>

HttpConfigure(args) ==
    /\ boot = "up"
    /\ MutexFree
    /\ ConfigureRoute(args)
    /\ UNCHANGED httpVars

\* Fault: /api/start takes a configuration to be present.
ConfigAssumed(cfg) == FALSE

\* runtime.config.is_none()
ConfigIsNone(cfg) == cfg = <<>>

\* What POST /api/start does to the runtime; tokio::spawn(monitor_loop): the
\* new task takes a free slot of the pool.
StartRoute(pool) ==
    /\ IF ConfigIsNone(config)
       THEN UNCHANGED <<monitoring, tasks>>
       ELSE /\ monitoring' = TRUE
            /\ \E t \in pool :
                  /\ tasks[t].pc = "none"
                  /\ tasks' = [tasks EXCEPT ![t] = [IdleTask EXCEPT !.pc = "top"]]
    /\ UNCHANGED <<config, current_poll_interval_ms, last_seen_hashes, config_file,
                   state_file, db, clock, plan_runs, rows_written, attributed, settle_lines,
                   warning, orders, stopped,
                   matcherVars, logVars, plannerVars, slugVars, bookVars, feeVars,
                   bootVars>>

HttpStart(pool) ==
    /\ boot = "up"
    /\ MutexFree
    /\ StartRoute(pool)
    /\ UNCHANGED httpVars

\* What POST /api/stop does to the runtime.
StopRoute ==
    /\ monitoring' = FALSE
    /\ stopped' = [t \in Tasks |-> tasks[t].pc # "none"]
    /\ UNCHANGED <<config, current_poll_interval_ms, last_seen_hashes, config_file,
                   state_file, db, clock, tasks, plan_runs, rows_written, attributed, settle_lines,
                   warning, orders, matcherVars, logVars, plannerVars, slugVars, bookVars, feeVars,
                   bootVars>>

HttpStop ==
    /\ boot = "up"
    /\ MutexFree
    /\ StopRoute
    /\ UNCHANGED httpVars

(***************************************************************************)
(* monitor_loop / simulation_step, one action per stretch between awaits   *)
(***************************************************************************)
\* Fault: the hash set never reports a hash as seen.
NeverSeen(seen, tx_hash) == FALSE

\* runtime.last_seen_hashes.contains(&tx_hash)
SeenBefore(seen, tx_hash) == tx_hash \in seen

MovementId(cfg, tx_hash) ==
    IF cfg.simulation_mode THEN "sim-" \o tx_hash ELSE tx_hash

\* `continue` in the `for t in trades` loop; after the last trade the cycle
\* ends and the task sleeps until the top of the loop.
AfterTrade(task) ==
    [task EXCEPT !.trades = Tail(@), !.state = <<>>, !.capped = 0,
                 !.pc = IF Tail(task.trades) = <<>> THEN "top" ELSE "plan"]

\* The end of simulation_step: a warning is set when none is.
EndOfStep(cfg, task, w) ==
    IF cfg.simulation_mode /\ task.pc = "top" /\ w = <<>> THEN <<"sim_active">> ELSE w

\* The task passed its top-of-cycle check or returned: no stop is pending for it.
Checked(t) == [stopped EXCEPT ![t] = FALSE]

\* The leader addresses that configure requests carry, and the number of hex
\* digits after the 0x of each.
Addresses == {"0x0000000000000000000000000000000000000001", "0x1234", "0x1"}

HexDigits(s) ==
    CASE s = "0x0000000000000000000000000000000000000001" -> 40
      [] s = "0x1234" -> 4
      [] s = "0x1" -> 1

\* crate::commands::parse_address(s).is_ok(): an address is 20 bytes
parse_address(s) == HexDigits(s) = 40

\* Top of the loop: snapshot of the runtime under the mutex. A leader that
\* does not parse sets a warning: in simulation the guard is dropped before
\* the sleep, in the real branch it lives until the sleep is over.
MonitorTop(t) ==
    /\ tasks[t].pc \in {"top", "leader_sleep"}
    /\ IF tasks[t].pc = "leader_sleep"
       THEN /\ tasks' = [tasks EXCEPT ![t].pc = "top"]
            /\ mutex' = "free"
            /\ UNCHANGED <<warning, stopped>>
       ELSE /\ MutexFree
            /\ stopped' = Checked(t)
            /\ IF ~monitoring \/ config = <<>>
               THEN tasks' = [tasks EXCEPT ![t] = IdleTask] /\ UNCHANGED <<warning, mutex>>
               ELSE IF parse_address(config[1].leader)
               THEN /\ tasks' = [tasks EXCEPT ![t] =
                                    [IdleTask EXCEPT !.pc = "value", !.cfg = config]]
                    /\ UNCHANGED <<warning, mutex>>
               ELSE /\ warning' = <<"leader">>
                    /\ IF config[1].simulation_mode
                       THEN /\ tasks' = [tasks EXCEPT ![t] = [IdleTask EXCEPT !.pc = "top"]]
                            /\ UNCHANGED mutex
                       ELSE /\ tasks' = [tasks EXCEPT ![t] =
                                            [IdleTask EXCEPT !.pc = "leader_sleep"]]
                            /\ mutex' = "monitor"
    /\ UNCHANGED <<config, monitoring, current_poll_interval_ms, last_seen_hashes,
                   config_file, state_file, db, clock, plan_runs, rows_written,
                   attributed, settle_lines, orders, matcherVars, logVars, plannerVars, slugVars, bookVars, feeVars,
                   bootVars, conn, http_out, cli_out>>

\* data_client.value(..).await returned (nothing bounds the wait).
MonitorValue(t, values) ==
    /\ tasks[t].pc = "value"
    /\ \E leader_value \in values :
          tasks' = [tasks EXCEPT ![t].pc = "settle", ![t].leader_value = leader_value]
    /\ UNCHANGED <<config, monitoring, current_poll_interval_ms, last_seen_hashes,
                   config_file, state_file, db, clock, plan_runs, rows_written,
                   attributed, settle_lines, warning, orders, stopped, matcherVars, logVars, plannerVars, slugVars, bookVars, feeVars,
                   bootVars, httpVars>>

\* The closed positions arrive, or the call fails or times out after 15 s and
\* counts as the empty list; open copies are settled.
MonitorSettle(t, outcomes) ==
    /\ tasks[t].pc = "settle"
    /\ \E closed_positions \in ClosedResponses, closed_ok \in outcomes :
          LET mode == mode_from_config(tasks[t].cfg[1])
              r == settle_open_movements_from_closed_positions(state_file, closed_positions)
          IN /\ closed_ok \/ closed_positions = <<>>
             /\ closed_ok \/ MutexFree
             /\ tasks' = [tasks EXCEPT ![t].pc = "trades"]
             /\ warning' = IF closed_ok THEN warning ELSE <<"closed">>
             /\ IF closed_positions # <<>> /\ r.settled # <<>>
                THEN /\ state_file' = r.movements
                     /\ db' = [db EXCEPT ![mode] = SettleEach(@, r.settled)]
                     /\ settle_lines' =
                           [id \in MovementIds |->
                               Saturate(settle_lines[id]
                                 + Cardinality({k \in 1..Len(r.settled) :
                                                   r.settled[k].movement_id = id}))]
                     /\ attributed' =
                           [c \in UpstreamClosed |->
                               Saturate(attributed[c]
                                 + Cardinality({k \in 1..Len(r.attr) :
                                                   closed_positions[r.attr[k]] = c}))]
                ELSE UNCHANGED <<state_file, db, attributed, settle_lines>>
    /\ UNCHANGED <<config, monitoring, current_poll_interval_ms, last_seen_hashes,
                   config_file, clock, plan_runs, rows_written, orders, stopped,
                   matcherVars, logVars, plannerVars, slugVars, bookVars, feeVars,
                   bootVars, httpVars>>

\* An error message is the sequence of its words.
ErrorWords ==
    {"HTTP", "429", "Too", "Many", "Requests", "too", "many", "requests",
     "RATE", "LIMIT", "rate", "limit", "exceeded", "connection", "reset"}

\* str::to_ascii_lowercase, word by word
to_ascii_lowercase(msg) ==
    [i \in 1..Len(msg) |->
        CASE msg[i] = "Too" -> "too"
          [] msg[i] = "Many" -> "many"
          [] msg[i] = "Requests" -> "requests"
          [] msg[i] = "RATE" -> "rate"
          [] msg[i] = "LIMIT" -> "limit"
          [] msg[i] = "HTTP" -> "http"
          [] OTHER -> msg[i]]

\* str::contains for a needle of one or two words
Contains(msg, needle) ==
    \E i \in 1..(Len(msg) - Len(needle) + 1) :
       SubSeq(msg, i, i + Len(needle) - 1) = needle

\* Fault: the message is searched as it came, without lowering its case.
CaseSensitiveRateLimit(msg) ==
    Contains(msg, <<"429">>) \/ Contains(msg, <<"too", "many">>)
        \/ Contains(msg, <<"rate", "limit">>)

is_rate_limit_error(msg) ==
    LET m == to_ascii_lowercase(msg)
    IN Contains(m, <<"429">>) \/ Contains(m, <<"too", "many">>)
          \/ Contains(m, <<"rate", "limit">>)

\* What tokio::time::timeout(.., data_client.trades(..)) yields when it fails.
Timeout == [timeout |-> TRUE, msg |-> <<>>]

Failed(msg) == [timeout |-> FALSE, msg |-> msg]

TradeFailures ==
    {Timeout, Failed(<<"HTTP", "429">>), Failed(<<"Too", "Many", "Requests">>),
     Failed(<<"RATE", "LIMIT", "exceeded">>), Failed(<<"connection", "reset">>),
     Failed(<<"too", "requests", "many">>)}

\* The polling interval the model lets rate-limit bumps reach.
MaxPollMs == 2500

\* runtime.current_poll_interval_ms.saturating_add(250).max(500)
BumpedPoll(poll_ms) == IF poll_ms + 250 >= 500 THEN poll_ms + 250 ELSE 500

\* The recent trades of the leader arrive, or the call fails or times out
\* after 15 s and counts as the empty list. In the real branch a rate-limit
\* error raises the polling interval and a success clears the warning.
MonitorTrades(t, outcomes, failures) ==
    /\ tasks[t].pc = "trades"
    /\ MutexFree
    /\ \E trades \in TradeResponses, trades_ok \in outcomes, failure \in failures :
          LET cfg == tasks[t].cfg[1]
              task == [tasks[t] EXCEPT !.trades = trades,
                                       !.pc = IF trades = <<>> THEN "top" ELSE "plan",
                                       !.failure = IF trades_ok THEN <<>> ELSE <<failure>>]
              rate_limited == /\ ~trades_ok
                              /\ ~cfg.simulation_mode
                              /\ ~failure.timeout
                              /\ is_rate_limit_error(failure.msg)
          IN /\ trades_ok \/ trades = <<>>
             /\ rate_limited => current_poll_interval_ms + 250 <= MaxPollMs
             /\ tasks' = [tasks EXCEPT ![t] = task]
             /\ current_poll_interval_ms' =
                   IF rate_limited THEN BumpedPoll(current_poll_interval_ms)
                   ELSE current_poll_interval_ms
             /\ warning' = IF rate_limited THEN <<"rate_limit">>
                           ELSE IF ~trades_ok THEN <<"trades">>
                           ELSE IF cfg.simulation_mode THEN EndOfStep(cfg, task, warning)
                           ELSE <<>>
    /\ UNCHANGED <<config, monitoring, last_seen_hashes,
                   config_file, state_file, db, clock, plan_runs, rows_written,
                   attributed, settle_lines, orders, stopped, matcherVars, logVars, plannerVars, slugVars, bookVars, feeVars,
                   bootVars, httpVars>>

\* Dedup under the mutex, load_state, compute_plan and the fee filter.
MonitorPlan(t) ==
    /\ tasks[t].pc = "plan"
    /\ MutexFree
    /\ LET task == tasks[t]
           cfg == task.cfg[1]
           tx_hash == Head(task.trades)
           trade == TradeOf(tx_hash)
           state == state_file
           plan == compute_plan(cfg, state, task.leader_value,
                                DecMul(trade.size, trade.price))
           fee_impact == trading_fee_impact_for_movement(trade.slug, plan.capped_size)
           skipped == AfterTrade(task)
       IN IF SeenBefore(last_seen_hashes, tx_hash)
          THEN /\ tasks' = [tasks EXCEPT ![t] = skipped]
               /\ warning' = EndOfStep(cfg, skipped, warning)
               /\ UNCHANGED <<last_seen_hashes, plan_runs, stopped>>
          ELSE /\ last_seen_hashes' = last_seen_hashes \cup {tx_hash}
               /\ IF \E i \in 1..Len(state) :
                        state[i].movement_id = MovementId(cfg, tx_hash)
                  THEN /\ tasks' = [tasks EXCEPT ![t] = skipped]
                       /\ warning' = EndOfStep(cfg, skipped, warning)
                       /\ UNCHANGED <<plan_runs, stopped>>
                  ELSE /\ plan_runs' = [plan_runs EXCEPT ![tx_hash] = Saturate(@ + 1)]
                       /\ IF plan.err
                          THEN IF cfg.simulation_mode
                               THEN /\ tasks' = [tasks EXCEPT ![t] =
                                                    [IdleTask EXCEPT !.pc = "top"]]
                                    /\ warning' = <<"sim_error">>
                                    /\ UNCHANGED stopped
                               ELSE /\ tasks' = [tasks EXCEPT ![t] = IdleTask]
                                    /\ stopped' = Checked(t)
                                    /\ UNCHANGED warning
                          ELSE IF plan.capped_size <= 0 \/ FeeRejects(fee_impact)
                          THEN /\ tasks' = [tasks EXCEPT ![t] = skipped]
                               /\ warning' = EndOfStep(cfg, skipped, warning)
                               /\ UNCHANGED stopped
                          ELSE /\ tasks' = [tasks EXCEPT ![t] =
                                               [task EXCEPT !.pc = "finish",
                                                            !.state = state,
                                                            !.capped = plan.capped_size]]
                               /\ UNCHANGED <<warning, stopped>>
    /\ UNCHANGED <<config, monitoring, current_poll_interval_ms, config_file,
                   state_file, db, clock, rows_written, attributed, settle_lines, orders,
                   matcherVars, logVars, plannerVars, slugVars, bookVars, feeVars,
                   bootVars, httpVars>>

\* An order book: the levels of each side in the order the CLOB returns them;
\* or the order_book call failed.
Level(price, size) == [price |-> price, size |-> size]

Book(asks, bids) == [ok |-> TRUE, asks |-> asks, bids |-> bids]

BookError == [ok |-> FALSE, asks |-> <<>>, bids |-> <<>>]

\* `for ask in &book.asks` of the buy side
RECURSIVE FillAsks(_, _, _, _)
FillAsks(asks, remaining_usdc, filled_usdc, filled_shares) ==
    IF asks = <<>> \/ remaining_usdc <= 0
    THEN [remaining |-> remaining_usdc, usdc |-> filled_usdc, shares |-> filled_shares]
    ELSE LET ask == Head(asks)
             level_notional == DecMul(ask.size, ask.price)
             take_notional == IF level_notional >= remaining_usdc THEN remaining_usdc
                              ELSE level_notional
         IN FillAsks(Tail(asks), remaining_usdc - take_notional,
                     filled_usdc + take_notional,
                     IF ask.price > 0 THEN filled_shares + DecDiv(take_notional, ask.price)
                     ELSE filled_shares)

\* `for bid in &book.bids` of the sell side
RECURSIVE FillBids(_, _, _, _)
FillBids(bids, remaining_shares, sold_shares, received_usdc) ==
    IF bids = <<>> \/ remaining_shares <= 0
    THEN [remaining |-> remaining_shares, usdc |-> received_usdc, shares |-> sold_shares]
    ELSE LET bid == Head(bids)
             take_shares == IF bid.size >= remaining_shares THEN remaining_shares
                            ELSE bid.size
         IN FillBids(Tail(bids), remaining_shares - take_shares,
                     sold_shares + take_shares,
                     received_usdc + DecMul(take_shares, bid.price))

\* trade.side.to_string().eq_ignore_ascii_case("buy")
IsBuy(side) == side \in {"BUY", "Buy", "buy"}

\* Fault: a book that cannot absorb the copy still yields the price of what
\* it could fill.
PartialFillPriced(book, side, price, copied_value_usd) ==
    IF IsBuy(side)
    THEN LET f == FillAsks(book.asks, copied_value_usd, 0, 0)
         IN IF f.shares <= 0 THEN <<>> ELSE <<DecDiv(f.usdc, f.shares)>>
    ELSE IF price <= 0 THEN <<>>
    ELSE LET f == FillBids(book.bids, DecDiv(copied_value_usd, price), 0, 0)
         IN IF f.shares <= 0 THEN <<>> ELSE <<DecDiv(f.usdc, f.shares)>>

\* The Option the probe returns once the book is there (Ok(None) or Ok(Some(px))).
estimate_simulated_copy_price_from_book(book, side, price, copied_value_usd) ==
    IF IsBuy(side)
    THEN LET f == FillAsks(book.asks, copied_value_usd, 0, 0)
         IN IF f.remaining > 0 \/ f.shares <= 0 THEN <<>>
            ELSE <<DecDiv(f.usdc, f.shares)>>
    ELSE IF price <= 0 THEN <<>>
    ELSE LET f == FillBids(book.bids, DecDiv(copied_value_usd, price), 0, 0)
         IN IF f.remaining > 0 \/ f.shares <= 0 THEN <<>>
            ELSE <<DecDiv(f.usdc, f.shares)>>

\* The books the upstream CLOB answers a probe with: the call fails, the book
\* is empty, or it is deep at the price the leader traded at.
DeepBook == Book(<<Level(500, Dec(100))>>, <<Level(500, Dec(100))>>)

CalmBooks == {BookError, Book(<<>>, <<>>), DeepBook}

\* The probe of an upstream that answers every call, with depth to spare.
HealthyBooks == {DeepBook}

Liquidity == {"some", "none", "error"}

\* What the monitor makes of a probe: an error, Ok(None) or Ok(Some(px)).
ProbeKind(book, trade, copied_value_usd) ==
    IF ~book.ok THEN "error"
    ELSE IF estimate_simulated_copy_price_from_book(book, trade.side, trade.price,
                                                    copied_value_usd) = <<>>
    THEN "none"
    ELSE "some"

\* Fault: without a probed price the record carries no price at all.
NoPriceWithoutProbe(estimated_sim_price, leader_price) ==
    IF estimated_sim_price = <<>> THEN 0 ELSE estimated_sim_price[1]

\* estimated_sim_price.unwrap_or(t.price)
unwrap_or(estimated_sim_price, leader_price) ==
    IF estimated_sim_price = <<>> THEN leader_price ELSE estimated_sim_price[1]

\* Fault: the order is submitted whenever the snapshot has execute_orders.
SubmitsWhenAsked(cfg) == cfg.execute_orders

\* execute_copy_order_from_trade is called in the real branch when the
\* snapshot has execute_orders.
SubmitsOrder(cfg) == ~cfg.simulation_mode /\ cfg.execute_orders

\* Fault: the result of the order is not looked at.
RejectionIgnored(cfg, order_ok) == FALSE

\* cfg.execute_orders && let Err(e) = execute_copy_order_from_trade(..)
OrderRejected(cfg, order_ok) == SubmitsOrder(cfg) /\ ~order_ok

\* The book probe (and, in real mode with execute_orders, the order) returned:
\* the record is pushed on the state loaded before the awaits and persisted.
MonitorFinish(t, books) ==
    /\ tasks[t].pc = "finish"
    /\ \E book \in books, order_ok \in BOOLEAN :
          LET task == tasks[t]
              cfg == task.cfg[1]
              mode == mode_from_config(cfg)
              tx_hash == Head(task.trades)
              trade == TradeOf(tx_hash)
              liquidity == ProbeKind(book, trade, task.capped)
              estimated_sim_price ==
                  IF book.ok
                  THEN estimate_simulated_copy_price_from_book(book, trade.side,
                                                               trade.price, task.capped)
                  ELSE <<>>
              fee_impact == trading_fee_impact_for_movement(trade.slug, task.capped)
              persist == IF cfg.simulation_mode
                         THEN liquidity = "some"
                         ELSE ~OrderRejected(cfg, order_ok)
              record == [MovementRecord(MovementId(cfg, tx_hash), trade.slug, clock,
                                        task.capped)
                            EXCEPT !.simulated_copy_price =
                                       unwrap_or(estimated_sim_price, trade.price),
                                   !.estimated_total_fee_usd = RecordedFee(fee_impact)]
              rows == append_db_movement(db[mode], record)
              done == AfterTrade(task)
              w == IF persist THEN warning
                   ELSE IF ~cfg.simulation_mode THEN <<"order">>
                   ELSE IF liquidity = "error" THEN <<"liquidity_error">>
                   ELSE <<"liquidity">>
          IN /\ persist \/ MutexFree
             /\ tasks' = [tasks EXCEPT ![t] = done]
             /\ warning' = EndOfStep(cfg, done, w)
             /\ orders' = IF SubmitsOrder(cfg) /\ Len(orders[tx_hash]) < MaxCount
                          THEN [orders EXCEPT ![tx_hash] = Append(@, order_ok)]
                          ELSE orders
             /\ IF persist
                THEN /\ state_file' = Append(task.state, record)
                     /\ db' = [db EXCEPT ![mode] = rows]
                     /\ rows_written' =
                           [rows_written EXCEPT ![tx_hash] =
                               IF Len(rows) > Len(db[mode]) THEN Saturate(@ + 1) ELSE @]
                ELSE UNCHANGED <<state_file, db, rows_written>>
    /\ UNCHANGED <<config, monitoring, current_poll_interval_ms, last_seen_hashes,
                   config_file, clock, plan_runs, attributed, settle_lines, stopped,
                   matcherVars, logVars, plannerVars, slugVars, bookVars, feeVars,
                   bootVars, httpVars>>

(***************************************************************************)
(* handle_http: one accepted connection from the read to the response      *)
(***************************************************************************)
\* generate_api_token(): the token of this process; "X" is any other value.
Token == "T"

\* A query string is its '&'-separated pieces: key=value, or a bare word.
Param(k, v) == [k |-> k, eq |-> TRUE, v |-> v]

Bare(w) == [k |-> w, eq |-> FALSE, v |-> ""]

Queries ==
    {<<>>, <<Param("token", "T")>>, <<Param("token", "X")>>, <<Param("since", "1")>>,
     <<Param("since", "1"), Param("token", "T")>>,
     <<Param("token", "T"), Param("since", "1")>>,
     <<Bare("x"), Param("token", "T")>>}

Target(path, query) == [path |-> path, query |-> query]

Routes ==
    {<<"GET", "/">>, <<"GET", "/api/state">>, <<"GET", "/api/updates">>,
     <<"POST", "/api/configure">>, <<"POST", "/api/start">>, <<"POST", "/api/stop">>,
     <<"GET", "/api/start">>, <<"GET", "/missing">>}

\* The body of a request: JSON of ConfigureArgs or not, and what it holds.
NoBody == [json |-> FALSE, args |-> <<>>]

JsonBody(args) == [json |-> TRUE, args |-> <<args>>]

Bodies == {NoBody, JsonBody(ConfigureArgs(Dec(10), FALSE, FALSE)),
           JsonBody(ConfigureArgs(0, FALSE, FALSE))}

\* What one recv returns: the words of the first line if there is one, the
\* X-API-Key header if there is one, and the body.
HttpRequest(first, key, body) == [first |-> first, key |-> key, body |-> body]

RequestLine(method, path, query) == << <<method, Target(path, query), "HTTP/1.1">> >>

\* Requests without a usable first line; every route with and without the
\* key header; GET /api/updates under every query; two more routes with the
\* token in the query; POST /api/configure with each body; a wrong key.
Requests ==
    {HttpRequest(f, <<>>, NoBody) : f \in {<<>>, << <<>> >>, << <<"GET">> >>}}
    \cup {HttpRequest(RequestLine(r[1], r[2], <<>>), k, NoBody) :
             r \in Routes, k \in {<<>>, <<Token>>}}
    \cup {HttpRequest(RequestLine("GET", "/api/updates", q), k, NoBody) :
             q \in Queries, k \in {<<>>, <<Token>>}}
    \cup {HttpRequest(RequestLine(r[1], r[2], q), <<>>, NoBody) :
             r \in {<<"GET", "/api/state">>, <<"POST", "/api/start">>},
             q \in {<<Param("token", "T")>>, <<Param("token", "X")>>,
                    <<Param("since", "1"), Param("token", "T")>>}}
    \cup {HttpRequest(RequestLine("POST", "/api/configure", <<>>), <<Token>>, b) :
             b \in Bodies}
    \cup {HttpRequest(RequestLine("GET", "/api/state", <<>>), <<"X">>, NoBody)}

parse_request_line(request) ==
    IF request.first = <<>> THEN [ok |-> FALSE, err |-> "empty request"]
    ELSE LET parts == request.first[1]
         IN IF Len(parts) = 0 THEN [ok |-> FALSE, err |-> "missing method"]
            ELSE IF Len(parts) = 1 THEN [ok |-> FALSE, err |-> "missing path"]
            ELSE [ok |-> TRUE, method |-> parts[1], path |-> parts[2].path,
                  query |-> parts[2].query]

\* query.split('&').find_map(|kv| kv.split_once('=')): the first piece that
\* has an '=', if any
FirstPair(query) ==
    LET pairs == {i \in 1..Len(query) : query[i].eq}
    IN IF pairs = {} THEN <<>>
       ELSE <<query[CHOOSE i \in pairs : \A j \in pairs : i <= j]>>

constant_time_eq(a, b) == a = b

is_authorized(key, query, token) ==
    LET header_ok == key # <<>> /\ constant_time_eq(key[1], token)
        first == FirstPair(query)
        query_ok == /\ first # <<>>
                    /\ first[1].k = "token"
                    /\ constant_time_eq(first[1].v, token)
    IN header_ok \/ query_ok

\* str::parse::<i64>().ok() on the values that requests carry
ParseI64(v) ==
    CASE v = "0" -> <<0>>
      [] v = "1" -> <<1>>
      [] v = "2" -> <<2>>
      [] OTHER -> <<>>

parse_since(query) ==
    LET first == FirstPair(query)
    IN IF first # <<>> /\ first[1].k = "since" /\ ParseI64(first[1].v) # <<>>
       THEN ParseI64(first[1].v)[1]
       ELSE 0

Take(seq, n) == SubSeq(seq, 1, IF Len(seq) < n THEN Len(seq) ELSE n)

\* .filter(|r| r.id > since).take(200) on the rows as read_db_rows returns them
db_updates_since(file, since) ==
    LET rows == read_db_rows(file)
        Newer(r) == r.id > since
    IN [latest_id |-> IF rows = <<>> THEN 0 ELSE Last(rows).id,
        movements |-> Take(SelectSeq(rows, Newer), 200)]

\* recent_rows of GET /api/state
RecentRows(file) ==
    LET recent_rows == db_updates_since(file, 0).movements
    IN IF Len(recent_rows) > 300
       THEN SubSeq(recent_rows, Len(recent_rows) - 300 + 1, Len(recent_rows))
       ELSE recent_rows

current_mode_from_runtime == IF config = <<>> THEN "real" ELSE mode_from_config(config[1])

Response(status, body) == [status |-> status, body |-> body]

\* The connection goes on to write_response, holding the mutex or not.
Reply(status, body) ==
    conn' = [pc |-> "respond", req |-> conn.req, reply |-> Response(status, body)]

\* listener.accept() and read_http_request
HttpAccept(request) ==
    /\ boot = "up"
    /\ conn.pc = "idle"
    /\ conn' = [pc |-> "read", req |-> request]
    /\ UNCHANGED <<programVars, matcherVars, logVars, plannerVars, slugVars, bookVars, feeVars, bootVars,
                   mutex, http_out, cli_out>>

\* handle_http from parse_request_line to the arm of the route, up to its
\* first file read or write_response. An Err return ends the connection with
\* nothing sent: the spawned task drops the result.
HttpRoute(pool) ==
    /\ conn.pc = "read"
    /\ LET request == conn.req
           line == parse_request_line(request)
           body == request.body
           idle == /\ UNCHANGED <<programVars, matcherVars, logVars, plannerVars,
                                  slugVars, bookVars, feeVars, bootVars>>
           dropped == /\ conn' = IdleConn
                      /\ http_out' = NoResponse
                      /\ UNCHANGED mutex
                      /\ idle
       IN IF ~line.ok THEN dropped
          ELSE IF /\ line.path \in {"/api/state", "/api/updates", "/api/configure",
                                    "/api/start", "/api/stop"}
                  /\ ~is_authorized(request.key, line.query, Token)
          THEN /\ Reply(401, "unauthorized")
               /\ UNCHANGED <<mutex, http_out>>
               /\ idle
          ELSE CASE line.method = "GET" /\ line.path = "/" ->
                      /\ Reply(200, "copy_ui.html")
                      /\ UNCHANGED <<mutex, http_out>>
                      /\ idle
                 [] line.method = "GET" /\ line.path = "/api/state" ->
                      /\ MutexFree
                      /\ mutex' = "http"
                      /\ conn' = [pc |-> "state_read", req |-> request]
                      /\ UNCHANGED http_out
                      /\ idle
                 [] line.method = "GET" /\ line.path = "/api/updates" ->
                      /\ MutexFree
                      /\ mutex' = "http"
                      /\ conn' = [pc |-> "updates_read", req |-> request,
                                  since |-> parse_since(line.query)]
                      /\ UNCHANGED http_out
                      /\ idle
                 [] line.method = "POST" /\ line.path = "/api/configure" ->
                      IF body.json /\ validate_config(body.args[1])
                      THEN /\ MutexFree
                           /\ ConfigureRoute(body.args[1])
                           /\ mutex' = "http"
                           /\ Reply(200, "ok")
                           /\ UNCHANGED http_out
                      ELSE dropped
                 [] line.method = "POST" /\ line.path = "/api/start" ->
                      /\ MutexFree
                      /\ StartRoute(pool)
                      /\ IF ConfigIsNone(config)
                         THEN mutex' = "http" /\ Reply(400, "configure first")
                         ELSE mutex' = "free" /\ Reply(200, "ok")
                      /\ UNCHANGED http_out
                 [] line.method = "POST" /\ line.path = "/api/stop" ->
                      /\ MutexFree
                      /\ StopRoute
                      /\ mutex' = "http"
                      /\ Reply(200, "ok")
                      /\ UNCHANGED http_out
                 [] OTHER ->
                      /\ Reply(404, "not found")
                      /\ UNCHANGED <<mutex, http_out>>
                      /\ idle
    /\ UNCHANGED cli_out

\* GET /api/state: load_state_from_db and db_updates_since read the movement
\* log of the active mode; the payload is built from them and the runtime.
HttpStateRead ==
    /\ conn.pc = "state_read"
    /\ LET file == db[current_mode_from_runtime]
       IN Reply(200, [configured |-> config # <<>>,
                      monitoring |-> monitoring,
                      movement_count |-> Len(read_db_rows(file)),
                      recent_movements |-> RecentRows(file)])
    /\ UNCHANGED <<programVars, matcherVars, logVars, plannerVars, slugVars, bookVars, feeVars, bootVars,
                   mutex, http_out, cli_out>>

\* GET /api/updates: db_updates_since reads the movement log of the active mode.
HttpUpdatesRead ==
    /\ conn.pc = "updates_read"
    /\ Reply(200, db_updates_since(db[current_mode_from_runtime], conn.since))
    /\ UNCHANGED <<programVars, matcherVars, logVars, plannerVars, slugVars, bookVars, feeVars, bootVars,
                   mutex, http_out, cli_out>>

\* write_response and the end of handle_http, where a guard still alive drops.
HttpRespond ==
    /\ conn.pc = "respond"
    /\ http_out' = conn.reply
    /\ conn' = IdleConn
    /\ mutex' = IF mutex = "http" THEN "free" ELSE mutex
    /\ UNCHANGED <<programVars, matcherVars, logVars, plannerVars, slugVars, bookVars, feeVars, bootVars,
                   cli_out>>

(***************************************************************************)
(* CLI commands (separate processes on the same files) and the wall clock  *)
(***************************************************************************)
CliConfigure(args) ==
    /\ IF validate_config(args)
       THEN config_file' = <<CopyConfig(args)>>
       ELSE UNCHANGED config_file
    /\ UNCHANGED <<config, monitoring, current_poll_interval_ms, last_seen_hashes,
                   state_file, db, clock, tasks, plan_runs, rows_written, attributed, settle_lines,
                   warning, orders, stopped,
                   matcherVars, logVars, plannerVars, slugVars, bookVars, feeVars,
                   bootVars, httpVars>>

\* Fault: a missing config file reads as the default configuration.
ConfigDefaulted(file) ==
    [ok |-> TRUE,
     cfg |-> IF file = <<>> THEN CopyConfig(ConfigureArgs(Dec(10), FALSE, FALSE))
             ELSE file[1]]

\* load_config(): the error carries the context of the failed read.
load_config(file) ==
    IF file = <<>>
    THEN [ok |-> FALSE,
          err |-> <<"Copy-trader is not configured.",
                    "Run polymarket copy configure ...">>]
    ELSE [ok |-> TRUE, cfg |-> file[1]]

\* `copy status`
CliStatus ==
    /\ LET loaded == load_config(config_file)
       IN cli_out' = IF loaded.ok
                     THEN <<[cmd |-> "status", ok |-> TRUE,
                             out |-> Len(state_file)]>>
                     ELSE <<[cmd |-> "status", ok |-> FALSE, err |-> loaded.err]>>
    /\ UNCHANGED <<programVars, matcherVars, logVars, plannerVars, slugVars, bookVars, feeVars, bootVars,
                   conn, mutex, http_out>>

\* `copy plan --leader-positions-value .. --leader-movement-value ..`
CliPlan(leader_positions_value, leader_movement_value) ==
    /\ LET loaded == load_config(config_file)
           result == compute_plan(loaded.cfg, state_file, leader_positions_value,
                                  leader_movement_value)
       IN cli_out' = IF ~loaded.ok
                     THEN <<[cmd |-> "plan", ok |-> FALSE, err |-> loaded.err]>>
                     ELSE IF result.err
                     THEN <<[cmd |-> "plan", ok |-> FALSE, err |-> <<result.reason>>]>>
                     ELSE <<[cmd |-> "plan", ok |-> TRUE, out |-> result.capped_size]>>
    /\ UNCHANGED <<programVars, matcherVars, logVars, plannerVars, slugVars, bookVars, feeVars, bootVars,
                   conn, mutex, http_out>>

\* The server process ends (killed, crashed or interrupted) and `copy ui` is
\* run again: nothing of RuntimeState or of the tasks survives, the files do.
\* run_ui reads the config file once for `config` ...
MaxRestarts == 1

Restart ==
    /\ boot = "up"
    /\ restarts < MaxRestarts
    /\ restarts' = restarts + 1
    /\ boot' = "loaded"
    /\ boot_log' = UNION {{db[m][i].movement_id : i \in 1..Len(db[m])} : m \in Modes}
    /\ config' = config_file
    /\ monitoring' = FALSE
    /\ last_seen_hashes' = {}
    /\ warning' = <<>>
    /\ tasks' = [t \in Tasks |-> IdleTask]
    /\ stopped' = [t \in Tasks |-> FALSE]
    /\ conn' = IdleConn
    /\ mutex' = "free"
    /\ UNCHANGED <<current_poll_interval_ms, config_file, state_file, db, clock,
                   plan_runs, rows_written, attributed, settle_lines, orders, http_out, cli_out,
                   matcherVars, logVars, plannerVars, slugVars, bookVars, feeVars>>

\* ... and a second time for `current_poll_interval_ms`; then it listens.
BootFinish ==
    /\ boot = "loaded"
    /\ boot' = "up"
    /\ current_poll_interval_ms' =
          IF config_file = <<>> THEN default_poll_interval_ms
          ELSE normalize_poll_ms(config_file[1].poll_interval_ms,
                                 config_file[1].realtime_mode,
                                 config_file[1].simulation_mode)
    /\ UNCHANGED <<config, monitoring, last_seen_hashes, config_file, state_file, db,
                   clock, tasks, plan_runs, rows_written, attributed, settle_lines, warning, orders,
                   stopped, boot_log, restarts,
                   matcherVars, logVars, plannerVars, slugVars, bookVars, feeVars, httpVars>>

CliMovementIds == {"h1"}

CliCopied == {Dec(3)}

CliPnls == {Dec(1)}

CliRecord(movement_id, copied_value) ==
    /\ Len(state_file) < MaxMovements
    /\ LET entry == MovementRecord(movement_id, MarketBase, clock, copied_value)
       IN /\ state_file' = Append(state_file, entry)
          /\ db' = [db EXCEPT ![current_mode_from_disk] = append_db_movement(@, entry)]
    /\ UNCHANGED <<config, monitoring, current_poll_interval_ms, last_seen_hashes,
                   config_file, clock, tasks, plan_runs, rows_written, attributed, settle_lines,
                   warning, orders, stopped,
                   matcherVars, logVars, plannerVars, slugVars, bookVars, feeVars,
                   bootVars, httpVars>>

FirstWithId(movements, movement_id) ==
    CHOOSE i \in 1..Len(movements) :
        /\ movements[i].movement_id = movement_id
        /\ \A j \in 1..(i - 1) : movements[j].movement_id # movement_id

CliSettle(movement_id, pnl) ==
    /\ IF \E i \in 1..Len(state_file) : state_file[i].movement_id = movement_id
       THEN /\ state_file' = [state_file EXCEPT
                                 ![FirstWithId(state_file, movement_id)] =
                                     [@ EXCEPT !.settled = TRUE, !.pnl = pnl]]
            /\ db' = [db EXCEPT ![current_mode_from_disk] =
                                    settle_db_movement(@, movement_id, pnl)]
       ELSE UNCHANGED <<state_file, db>>
    /\ UNCHANGED <<config, monitoring, current_poll_interval_ms, last_seen_hashes,
                   config_file, clock, tasks, plan_runs, rows_written, attributed, settle_lines,
                   warning, orders, stopped,
                   matcherVars, logVars, plannerVars, slugVars, bookVars, feeVars,
                   bootVars, httpVars>>

Tick ==
    /\ clock < MaxClock
    /\ clock' = clock + 1
    /\ UNCHANGED <<config, monitoring, current_poll_interval_ms, last_seen_hashes,
                   config_file, state_file, db, tasks, plan_runs, rows_written,
                   attributed, settle_lines, warning, orders, stopped,
                   matcherVars, logVars, plannerVars, slugVars, bookVars, feeVars,
                   bootVars, httpVars>>

\* Nothing was handed to the matcher, the planner or the slug normalizer alone.
NoMatcherRun == m_state = <<>> /\ m_closed = <<>> /\ m_out = <<>>

NoPlannerRun == plan_in = <<>> /\ plan_out = <<>>

NoSlugRun == slug_in = <<>> /\ slug_out = <<>>

NoBookRun == book_in = <<>> /\ book_out = <<>>

NoFeeRun == fee_in = <<>> /\ fee_out = <<>>

Init == MainInit /\ NoMatcherRun /\ NoPlannerRun /\ NoSlugRun /\ NoBookRun /\ NoFeeRun

ControlPlane(pool, payloads) ==
    \/ \E args \in payloads : HttpConfigure(args)
    \/ HttpStart(pool)
    \/ HttpStop

\* `values` are the leader values and `outcomes` the successes (TRUE) and
\* failures (FALSE) of the closed-positions and trades calls that the
\* upstream API answers with, `failures` what a failing trades call yields and
\* `books` what the order-book probe meets.
Monitor(pool, values, outcomes, failures, books) ==
    \/ \E t \in pool : MonitorTop(t)
    \/ \E t \in pool : MonitorValue(t, values)
    \/ \E t \in pool : MonitorSettle(t, outcomes)
    \/ \E t \in pool : MonitorTrades(t, outcomes, failures)
    \/ \E t \in pool : MonitorPlan(t)
    \/ \E t \in pool : MonitorFinish(t, books)

CliMovements ==
    \/ \E movement_id \in CliMovementIds, copied_value \in CliCopied :
          CliRecord(movement_id, copied_value)
    \/ \E movement_id \in CliMovementIds, pnl \in CliPnls : CliSettle(movement_id, pnl)

\* The whole program: the server process with its monitor tasks, the CLI
\* processes and the clock.
Next ==
    \/ ControlPlane(Tasks, ConfigurePayloads)
    \/ Monitor(Tasks, LeaderValues, BOOLEAN, TradeFailures, CalmBooks)
    \/ \E args \in ConfigurePayloads : CliConfigure(args)
    \/ CliMovements
    \/ Tick
    \/ Restart
    \/ BootFinish

Spec == Init /\ [][Next]_vars

\* The server process alone: control plane and MaxTasks monitor slots.
\* The upstream API answers every call, with a positive leader value.
Healthy == {TRUE}

PositiveLeaderValues == {v \in LeaderValues : v > 0}

NextEngine ==
    \/ ControlPlane(Tasks, ConfigurePayloads)
    \/ Monitor(Tasks, PositiveLeaderValues, Healthy, {Timeout}, HealthyBooks)

SpecEngine == Init /\ [][NextEngine]_vars

SingleTask == {1}

\* The server process with one monitor slot against an upstream API whose
\* calls can fail and whose leader value can be zero, under configurations
\* that cover live orders, dry run and simulation; and the clock.
FaultPayloads ==
    {ConfigureArgs(Dec(10), TRUE, FALSE), ConfigureArgs(Dec(10), FALSE, FALSE),
     ConfigureArgs(Dec(10), TRUE, TRUE)}

NextFaults ==
    \/ ControlPlane(SingleTask, FaultPayloads)
    \/ Monitor(SingleTask, LeaderValues, BOOLEAN, {Timeout}, CalmBooks)
    \/ Tick

SpecFaults == Init /\ [][NextFaults]_vars

\* The server process with one monitor slot against an upstream API whose
\* trades call fails in every way it can, under a normal, a realtime and a
\* simulation configuration that place no orders.
RatePayloads ==
    {ConfigureArgs(Dec(10), FALSE, FALSE),
     [ConfigureArgs(Dec(10), FALSE, FALSE) EXCEPT !.realtime_mode = TRUE,
                                                  !.poll_interval_ms = <<50>>],
     [ConfigureArgs(Dec(10), FALSE, TRUE) EXCEPT !.poll_interval_ms = <<50>>]}

NextRate ==
    \/ ControlPlane(SingleTask, RatePayloads)
    \/ Monitor(SingleTask, PositiveLeaderValues, BOOLEAN, TradeFailures, CalmBooks)

SpecRate == Init /\ [][NextRate]_vars

\* The server process with one monitor slot and the configure command of the
\* CLI, fed the configurations that the validation is there to tell apart.
ValidArgs == ConfigureArgs(Dec(10), FALSE, FALSE)

ConfigureInputs ==
    {ValidArgs,
     [ValidArgs EXCEPT !.allocated_funds = 0],
     [ValidArgs EXCEPT !.max_trade_pct = 0],
     [ValidArgs EXCEPT !.max_total_exposure_pct = Dec(101)],
     [ValidArgs EXCEPT !.min_copy_usd = Dec(-1)],
     [ValidArgs EXCEPT !.realtime_mode = TRUE, !.simulation_mode = TRUE],
     [ValidArgs EXCEPT !.leader = "0x1234"],
     [ValidArgs EXCEPT !.leader = "0x1", !.simulation_mode = TRUE]}

NextConfigure ==
    \/ ControlPlane(SingleTask, ConfigureInputs)
    \/ \E args \in ConfigureInputs : CliConfigure(args)
    \/ Monitor(SingleTask, PositiveLeaderValues, Healthy, {Timeout}, HealthyBooks)

SpecConfigure == Init /\ [][NextConfigure]_vars

\* The server process started over while the CLI rewrites the config file:
\* a normal, a realtime and a simulation configuration, one monitor slot and
\* an upstream API that rate limits every closed-positions and trades call.
RateLimited == {FALSE}

NextBoot ==
    \/ ControlPlane(SingleTask, RatePayloads)
    \/ \E args \in RatePayloads : CliConfigure(args)
    \/ \E t \in SingleTask : MonitorTop(t)
    \/ \E t \in SingleTask : MonitorValue(t, PositiveLeaderValues)
    \/ \E t \in SingleTask : MonitorSettle(t, RateLimited)
    \/ \E t \in SingleTask : MonitorTrades(t, RateLimited, {Failed(<<"HTTP", "429">>)})
    \/ Restart
    \/ BootFinish

SpecBoot == Init /\ [][NextBoot]_vars

\* The server process started over, with the configure request and the
\* configure command given each combination of the two mode flags.
ModePayloads ==
    {[ValidArgs EXCEPT !.realtime_mode = r, !.simulation_mode = m,
                       !.poll_interval_ms = ms] :
        r \in BOOLEAN, m \in BOOLEAN, ms \in {<<>>, <<50>>}}

NextModes ==
    \/ ControlPlane(SingleTask, ModePayloads)
    \/ \E args \in ModePayloads : CliConfigure(args)
    \/ \E t \in SingleTask : MonitorTop(t)
    \/ \E t \in SingleTask : MonitorValue(t, PositiveLeaderValues)
    \/ \E t \in SingleTask : MonitorSettle(t, RateLimited)
    \/ \E t \in SingleTask : MonitorTrades(t, RateLimited, {Timeout})
    \/ Restart
    \/ BootFinish

SpecModes == Init /\ [][NextModes]_vars

\* The server process with one monitor slot under live, dry-run and simulation
\* configurations, against a CLOB whose book probe fails, finds no book, finds
\* a book too thin for the copy, or finds depth away from the leader's price.
ThinBook == Book(<<Level(800, Dec(1))>>, <<Level(400, Dec(1))>>)

DearBook == Book(<<Level(800, Dec(100))>>, <<Level(400, Dec(100))>>)

LiquidityBooks == {BookError, Book(<<>>, <<>>), ThinBook, DearBook}

NextLiquidity ==
    \/ ControlPlane(SingleTask, FaultPayloads)
    \/ Monitor(SingleTask, PositiveLeaderValues, Healthy, {Timeout}, LiquidityBooks)

SpecLiquidity == Init /\ [][NextLiquidity]_vars

\* The server process with one monitor slot whose cycles skip trades in every
\* way: funds too small for the minimum copy, a rejected order, and a book
\* probe that fails or finds no liquidity; the configurations switch between
\* live orders and simulation and raise the funds.
SkipPayloads ==
    {ConfigureArgs(Dec(1), FALSE, FALSE), ConfigureArgs(Dec(10), TRUE, FALSE),
     ConfigureArgs(Dec(10), TRUE, TRUE)}

SkipBooks == {BookError, Book(<<>>, <<>>), DeepBook}

NextSkip ==
    \/ ControlPlane(SingleTask, SkipPayloads)
    \/ Monitor(SingleTask, PositiveLeaderValues, Healthy, {Timeout}, SkipBooks)

SpecSkip == Init /\ [][NextSkip]_vars

\* The server process with its monitor slots, placing live orders against a
\* healthy upstream API, and started over.
RestartPayloads == {ConfigureArgs(Dec(10), TRUE, FALSE)}

NextRestart ==
    \/ ControlPlane(Tasks, RestartPayloads)
    \/ Monitor(Tasks, PositiveLeaderValues, Healthy, {Timeout}, HealthyBooks)
    \/ Restart
    \/ BootFinish

SpecRestart == Init /\ [][NextRestart]_vars

\* The control plane serving one connection at a time, one monitor slot
\* against an upstream API whose closed-positions and trades calls fail, and
\* the record command of the CLI.
HttpMovementIds == {"h1", "h2"}

NextHttp ==
    \/ \E request \in Requests : HttpAccept(request)
    \/ HttpRoute(SingleTask)
    \/ HttpStateRead
    \/ HttpUpdatesRead
    \/ HttpRespond
    \/ \E t \in SingleTask : MonitorTop(t)
    \/ \E t \in SingleTask : MonitorValue(t, PositiveLeaderValues)
    \/ \E t \in SingleTask : MonitorSettle(t, RateLimited)
    \/ \E t \in SingleTask : MonitorTrades(t, RateLimited, {Timeout})
    \/ \E movement_id \in HttpMovementIds : CliRecord(movement_id, Dec(3))

SpecHttp == Init /\ [][NextHttp]_vars

\* The control plane and the configure, status and plan commands of the CLI,
\* from a machine where nothing is configured yet.
SetupRequests ==
    {HttpRequest(RequestLine(r[1], r[2], <<>>), <<Token>>, NoBody) : r \in Routes}
    \cup {HttpRequest(RequestLine("POST", "/api/configure", <<>>), <<Token>>, b) :
             b \in Bodies}

NextSetup ==
    \/ \E request \in SetupRequests : HttpAccept(request)
    \/ HttpRoute(SingleTask)
    \/ HttpStateRead
    \/ HttpUpdatesRead
    \/ HttpRespond
    \/ \E t \in SingleTask : MonitorTop(t)
    \/ \E t \in SingleTask : MonitorValue(t, PositiveLeaderValues)
    \/ \E t \in SingleTask : MonitorSettle(t, RateLimited)
    \/ \E t \in SingleTask : MonitorTrades(t, RateLimited, {Timeout})
    \/ \E args \in RatePayloads : CliConfigure(args)
    \/ CliStatus
    \/ \E value \in {0, Dec(10)} : CliPlan(value, Dec(2))

SpecSetup == Init /\ [][NextSetup]_vars

\* GET /api/state on a machine where `copy record` was run n times and
\* nothing else: the log of the real mode holds the ids 1..n, the mirror the
\* same movements.
MaxRecentLog == 302

RecordedMovement(i) == MovementRecord("m" \o ToString(i), MarketBase, 1, Dec(3))

RecentInit ==
    /\ \E n \in 0..MaxRecentLog :
          /\ state_file = [i \in 1..n |-> RecordedMovement(i)]
          /\ db = [mode \in Modes |->
                     IF mode = "real"
                     THEN [i \in 1..n |-> DbRow(i, RecordedMovement(i))]
                     ELSE <<>>]
    /\ config = <<>>
    /\ monitoring = FALSE
    /\ current_poll_interval_ms = default_poll_interval_ms
    /\ last_seen_hashes = {}
    /\ config_file = <<>>
    /\ clock = 1
    /\ tasks = [t \in Tasks |-> IdleTask]
    /\ plan_runs = [h \in Hashes |-> 0]
    /\ rows_written = [h \in Hashes |-> 0]
    /\ attributed = [c \in UpstreamClosed |-> 0]
    /\ settle_lines = [id \in MovementIds |-> 0]
    /\ warning = <<>>
    /\ orders = [h \in Hashes |-> <<>>]
    /\ stopped = [t \in Tasks |-> FALSE]
    /\ writers = [w \in Writers |-> IdleWriter]
    /\ log_appends = <<>>
    /\ boot = "up"
    /\ boot_log = {}
    /\ restarts = 0
    /\ conn = IdleConn
    /\ mutex = "free"
    /\ http_out = NoResponse
    /\ cli_out = <<>>
    /\ NoMatcherRun
    /\ NoPlannerRun
    /\ NoSlugRun
    /\ NoBookRun
    /\ NoFeeRun

StateRequests == {HttpRequest(RequestLine("GET", "/api/state", <<>>), <<Token>>, NoBody)}

NextRecent ==
    \/ \E request \in StateRequests : HttpAccept(request)
    \/ HttpRoute(SingleTask)
    \/ HttpStateRead
    \/ HttpRespond

SpecRecent == RecentInit /\ [][NextRecent]_vars

\* The server process with one monitor slot, with the progress the code
\* guarantees: the runtime schedules a ready task, and the closed-positions
\* and trades calls are wrapped in tokio::time::timeout(15 s), so the steps
\* that wait for them are taken. Nothing bounds data_client.value, the book
\* probe and the order submission: the steps that wait for them carry no
\* fairness.
LivePayloads == {ConfigureArgs(Dec(10), TRUE, FALSE)}

NextLive ==
    \/ ControlPlane(SingleTask, LivePayloads)
    \/ Monitor(SingleTask, PositiveLeaderValues, BOOLEAN, {Timeout}, CalmBooks)

LiveFairness ==
    \A t \in SingleTask :
       /\ WF_vars(MonitorTop(t))
       /\ WF_vars(MonitorSettle(t, BOOLEAN))
       /\ WF_vars(MonitorTrades(t, BOOLEAN, {Timeout}))
       /\ WF_vars(MonitorPlan(t))

SpecLive == Init /\ [][NextLive]_vars /\ LiveFairness

\* The server process with one monitor slot, and record / settle CLI processes
\* on its files. The stop route, which touches no file, is left to SpecEngine.
NextCli ==
    \/ \E args \in ConfigurePayloads : HttpConfigure(args)
    \/ HttpStart(SingleTask)
    \/ Monitor(SingleTask, PositiveLeaderValues, Healthy, {Timeout}, HealthyBooks)
    \/ CliMovements

SpecCli == Init /\ [][NextCli]_vars

(***************************************************************************)
(* Specification of the book probe as a pure function: a trade side, the   *)
(* leader's price, a planned size (the monitor passes capped_size > 0) and *)
(* an order book of up to MaxBookLevels levels a side; one action applies  *)
(* the probe.                                                              *)
(***************************************************************************)
MaxBookLevels == 2

BookLevels == {Level(p, z) : p \in {0, 250, 500, 1000}, z \in {Dec(2), Dec(4)}}

BookSides ==
    UNION {[1..n -> BookLevels] : n \in 0..MaxBookLevels}

BookInputs ==
    [side : {"BUY", "buy", "SELL"}, price : {0, 500}, copied_value_usd : {Dec(1), Dec(3)},
     book : {Book(a, b) : a \in BookSides, b \in {<<>>} \cup {<<l>> : l \in BookLevels}}
            \cup {Book(<<>>, b) : b \in BookSides}]

BookInit ==
    /\ MainInit
    /\ NoMatcherRun
    /\ NoPlannerRun
    /\ NoSlugRun
    /\ NoFeeRun
    /\ book_in \in BookInputs
    /\ book_out = <<>>

RunProbe ==
    /\ book_out = <<>>
    /\ book_out' = <<estimate_simulated_copy_price_from_book(
                         book_in.book, book_in.side, book_in.price,
                         book_in.copied_value_usd)>>
    /\ UNCHANGED <<book_in, mainVars, matcherVars, plannerVars, slugVars, feeVars>>

SpecBook == BookInit /\ [][RunProbe]_vars

(***************************************************************************)
(* Specification of the fee filter as a pure function of the market of a   *)
(* trade and the planned size (the monitor passes capped_size > 0): one    *)
(* action applies the filter and builds the fee of the record.             *)
(***************************************************************************)
\* Slugs that contain "-updown-5m" or "-updown-15m" ...
FastFeeMarkets ==
    {<<"btc", "updown", "5m">>, <<"btc", "updown", "5m", "1772278200">>,
     <<"eth", "updown", "15m", "1772278300">>, <<"btc", "updown", "5m", "1234567">>,
     <<"sol", "price", "updown", "15m">>}

\* ... and slugs that do not.
PlainMarkets ==
    {<<"btc", "updown", "1h", "1772278200">>, <<"updown", "5m", "1772278200">>,
     <<"btc", "5m", "updown">>, <<"election", "2028">>, <<"btc", "updown">>,
     <<"15m">>}

FeeCopiedValues == {Dec(1), Dec(2), Dec(4), Dec(10), Dec(50), Dec(100)}

FeeInit ==
    /\ MainInit
    /\ NoMatcherRun
    /\ NoPlannerRun
    /\ NoSlugRun
    /\ NoBookRun
    /\ fee_in \in [market : FastFeeMarkets \cup PlainMarkets, copied_value : FeeCopiedValues]
    /\ fee_out = <<>>

RunFeeFilter ==
    /\ fee_out = <<>>
    /\ LET fee_impact == trading_fee_impact_for_movement(fee_in.market, fee_in.copied_value)
       IN fee_out' = <<[fee_impact |-> fee_impact,
                        rejected |-> FeeRejects(fee_impact),
                        estimated_total_fee_usd |-> RecordedFee(fee_impact)]>>
    /\ UNCHANGED <<fee_in, mainVars, matcherVars, plannerVars, slugVars, bookVars>>

SpecFee == FeeInit /\ [][RunFeeFilter]_vars

(***************************************************************************)
(* Specification of the settlement matcher as a pure function: the inputs  *)
(* are drawn from bounded sets and one action applies the matcher.         *)
(***************************************************************************)
MaxMatcherMovements == 2

MaxMatcherClosed == 2

MaxMatcherTime == 2

MatcherMarkets == {MarketBase, MarketRound1, MarketRound2}

MatcherCopied == <<Dec(10), Dec(8), Dec(6)>>

\* Movements are appended in creation order, so timestamps never decrease.
MatcherStates ==
    UNION {{s \in [1..n -> [market : MatcherMarkets, timestamp : 1..MaxMatcherTime]] :
               \A i \in 1..(n - 1) : s[i].timestamp <= s[i + 1].timestamp} :
              n \in 1..MaxMatcherMovements}

MatcherMovements(s) ==
    [i \in 1..Len(s) |->
        MovementRecord(<<"m", i>>, s[i].market, s[i].timestamp, MatcherCopied[i])]

MatcherClosedPool ==
    {ClosedPosition(slug, ts, Dec(-4), Dec(20)) :
        slug \in {MarketBase, MarketRound1}, ts \in {0, 1, MaxMatcherTime + 1}}
    \cup {ClosedPosition(MarketBase, 0, Dec(2), Dec(10)),
          ClosedPosition(MarketBase, MaxMatcherTime + 1, Dec(2), Dec(10)),
          ClosedPosition(MarketBase, 0, Dec(2), 0)}

MatcherClosedLists ==
    UNION {[1..n -> MatcherClosedPool] : n \in 0..MaxMatcherClosed}

MatcherInit ==
    /\ MainInit
    /\ m_state \in {MatcherMovements(s) : s \in MatcherStates}
    /\ m_closed \in MatcherClosedLists
    /\ m_out = <<>>
    /\ NoPlannerRun
    /\ NoSlugRun
    /\ NoBookRun
    /\ NoFeeRun

RunMatcher ==
    /\ m_out = <<>>
    /\ m_out' = <<settle_open_movements_from_closed_positions(m_state, m_closed)>>
    /\ UNCHANGED <<m_state, m_closed, mainVars, plannerVars, slugVars, bookVars, feeVars>>

SpecMatcher == MatcherInit /\ [][RunMatcher]_vars

(***************************************************************************)
(* append_db_movement and settle_db_movement of several tasks and          *)
(* processes on one movement log: each reads the file, then rewrites it    *)
(***************************************************************************)
MaxLogRows == 3

LogMode == "real"

LogMovementIds == {"h1", "h2", "h3"}

LogMovement(movement_id) == MovementRecord(movement_id, MarketBase, 0, Dec(3))

\* append_db_movement up to the push: read_db_rows, the movement_id lookup,
\* the new row with next_db_id.
LogReadForAppend(w, movement_id) ==
    /\ writers[w].pc = "idle"
    /\ Len(log_appends) < MaxLogRows
    /\ LET rows == read_db_rows(db[LogMode])
           row == DbRow(next_db_id(rows), LogMovement(movement_id))
       IN writers' = [writers EXCEPT ![w] =
                         IF NoSuchRow(rows, movement_id)
                         THEN [pc |-> "write", rows |-> Append(rows, row),
                               pushed |-> <<row>>]
                         ELSE IdleWriter]
    /\ UNCHANGED <<log_appends, mainVarsButLog, matcherVars, plannerVars, slugVars, bookVars, feeVars>>

\* settle_db_movement up to the rewrite: read_db_rows and the update in memory.
LogReadForSettle(w, movement_id, pnl) ==
    /\ writers[w].pc = "idle"
    /\ writers' = [writers EXCEPT ![w] =
                      [pc |-> "write",
                       rows |-> settle_db_movement(db[LogMode], movement_id, pnl),
                       pushed |-> <<>>]]
    /\ UNCHANGED <<log_appends, mainVarsButLog, matcherVars, plannerVars, slugVars, bookVars, feeVars>>

\* write_db_rows: the file becomes the rows this writer holds. A pushed row
\* counts as appended once, also when two writers pushed the very same row.
LogWrite(w) ==
    /\ writers[w].pc = "write"
    /\ db' = [db EXCEPT ![LogMode] = writers[w].rows]
    /\ log_appends' =
          IF \E k \in 1..Len(log_appends) : <<log_appends[k]>> = writers[w].pushed
          THEN log_appends
          ELSE log_appends \o writers[w].pushed
    /\ writers' = [writers EXCEPT ![w] = IdleWriter]
    /\ UNCHANGED <<config, monitoring, current_poll_interval_ms, last_seen_hashes,
                   config_file, state_file, clock, tasks, plan_runs, rows_written,
                   attributed, settle_lines, warning, orders, stopped, matcherVars, plannerVars,
                   slugVars, bookVars, feeVars, bootVars, httpVars>>

NextLog ==
    \/ \E w \in Writers, movement_id \in LogMovementIds :
          LogReadForAppend(w, movement_id)
    \/ \E w \in Writers, movement_id \in LogMovementIds, pnl \in CliPnls :
          LogReadForSettle(w, movement_id, pnl)
    \/ \E w \in Writers : LogWrite(w)

SpecLog == Init /\ [][NextLog]_vars

(***************************************************************************)
(* compute_plan alone, on bounded configurations, states and inputs        *)
(***************************************************************************)
MaxPlannerMovements == 2

PlannerArgs ==
    {[ConfigureArgs(Dec(10), FALSE, FALSE) EXCEPT
         !.max_trade_pct = max_trade_pct,
         !.max_total_exposure_pct = max_total_exposure_pct,
         !.min_copy_usd = min_copy_usd] :
        max_trade_pct \in {Dec(50), Dec(100), Dec(101)},
        max_total_exposure_pct \in {Dec(30), Dec(60)},
        min_copy_usd \in {0, Dec(1)}}

\* Configurations accepted by validation.
PlannerConfigs == {CopyConfig(args) : args \in {a \in PlannerArgs : validate_config(a)}}

PlannerStates ==
    UNION {{[i \in 1..n |->
                [MovementRecord(<<"m", i>>, MarketBase, 0, Dec(3)) EXCEPT
                    !.settled = flags[i]]] : flags \in [1..n -> BOOLEAN]} :
              n \in 0..MaxPlannerMovements}

PlannerLeaderValues == {0, Dec(5), Dec(10)}

PlannerMovementValues == {Dec(-2), 0, 500, Dec(2), Dec(4), Dec(8)}

PlannerInit ==
    /\ MainInit
    /\ NoMatcherRun
    /\ NoSlugRun
    /\ NoBookRun
    /\ NoFeeRun
    /\ plan_in \in [cfg : PlannerConfigs, movements : PlannerStates,
                     leader_positions_value : PlannerLeaderValues,
                     leader_movement_value : PlannerMovementValues]
    /\ plan_out = <<>>

RunPlanner ==
    /\ plan_out = <<>>
    /\ plan_out' = <<compute_plan(plan_in.cfg, plan_in.movements,
                                  plan_in.leader_positions_value,
                                  plan_in.leader_movement_value)>>
    /\ UNCHANGED <<plan_in, mainVars, matcherVars, slugVars, bookVars, feeVars>>

SpecPlanner == PlannerInit /\ [][RunPlanner]_vars

(***************************************************************************)
(* normalize_market_slug alone, applied once and then to its own result    *)
(***************************************************************************)
MaxSlugSegments == 3

SlugSegments == {"btc"} \cup DigitSegments

SlugInputs == UNION {[1..n -> SlugSegments] : n \in 1..MaxSlugSegments}

SlugInit ==
    /\ MainInit
    /\ NoMatcherRun
    /\ NoPlannerRun
    /\ NoBookRun
    /\ NoFeeRun
    /\ slug_in \in SlugInputs
    /\ slug_out = <<>>

RunNormalize ==
    /\ Len(slug_out) < 2
    /\ slug_out' = Append(slug_out,
                          normalize_market_slug(IF slug_out = <<>> THEN slug_in
                                                ELSE Last(slug_out)))
    /\ UNCHANGED <<slug_in, mainVars, matcherVars, plannerVars, bookVars, feeVars>>

SpecSlug == SlugInit /\ [][RunNormalize]_vars

(***************************************************************************)
(* Properties of the engine                                                *)
(***************************************************************************)
(* C1: after any sequence of configure / start / stop requests at most one
   monitor loop task is alive. *)
C1_AtMostOneMonitor == Cardinality(LiveTasks) <= 1

\* The step of task t that pushed a movement record and saved it.
Inserted(t) ==
    /\ tasks[t].pc = "finish"
    /\ tasks'[t].pc # "finish"
    /\ (state_file' # state_file \/ db' # db)

(* C2: right after a monitor cycle inserts a movement, the copied_value of the
   unsettled movements (in the state mirror and in the movement log of the
   cycle's mode) sums to at most allocated_funds * max_total_exposure_pct / 100
   of the config that cycle used. *)
C2_ExposureWithinCap ==
    [][\A t \in Tasks :
          Inserted(t) =>
              LET cfg == tasks[t].cfg[1]
              IN /\ UnsettledCopied(state_file') <= max_total_exposure(cfg)
                 /\ DbUnsettledCopied(db'[mode_from_config(cfg)])
                        <= max_total_exposure(cfg)]_vars

RowsOfHash(tx_hash) ==
    UNION {{<<mode, i>> : i \in {k \in 1..Len(db[mode]) :
                                    db[mode][k].movement_id
                                        \in {tx_hash, "sim-" \o tx_hash}}} :
              mode \in Modes}

(* C3: within one server process, for every leader trade hash the planner is
   run at most once and at most one movement row is written, whatever the
   interleaving of the monitor tasks and the mode they run in. *)
C3_PlannerOncePerHash ==
    \A tx_hash \in Hashes :
        /\ plan_runs[tx_hash] <= 1
        /\ rows_written[tx_hash] <= 1
        /\ Cardinality(RowsOfHash(tx_hash)) <= 1

\* Reached: h1 was planned and written once, and a second live monitor task is
\* about to run the dedup check on h1 again.
C3_Witness ==
    /\ plan_runs["h1"] = 1
    /\ rows_written["h1"] = 1
    /\ Cardinality(LiveTasks) = 2
    /\ \E t \in Tasks :
          /\ tasks[t].pc = "plan"
          /\ Head(tasks[t].trades) = "h1"
          /\ "h1" \in last_seen_hashes

(* C5: over successive monitor cycles a closed position the upstream keeps
   returning settles at most one open copy in total. *)
C5_ClosureSettlesOnce == \A c \in UpstreamClosed : attributed[c] <= 1

\* The i-th entry is the same movement before and after the step: every field
\* but settled and pnl is equal.
SameMovement(before, after, i) ==
    /\ i <= Len(after)
    /\ [after[i] EXCEPT !.settled = before[i].settled, !.pnl = before[i].pnl] = before[i]

(* C8: a movement that is settled, in the state mirror or in a movement log,
   is still settled after every step of the engine, the control plane and the
   CLI. *)
C8_SettledNeverReverts ==
    [][/\ \A i \in 1..Len(state_file) :
             (state_file[i].settled /\ SameMovement(state_file, state_file', i))
                 => state_file'[i].settled
       /\ \A mode \in Modes : \A i \in 1..Len(db[mode]) :
             (db[mode][i].settled /\ SameMovement(db[mode], db'[mode], i))
                 => db'[mode][i].settled]_vars

(* C9: the pnl of a settled movement (state mirror and movement log) is the
   same after every step of a monitor cycle or a CLI settle command that
   leaves it settled. *)
C9_PnlFinalAfterSettle ==
    [][/\ \A i \in 1..Len(state_file) :
             (/\ state_file[i].settled
              /\ SameMovement(state_file, state_file', i)
              /\ state_file'[i].settled)
                 => state_file'[i].pnl = state_file[i].pnl
       /\ \A mode \in Modes : \A i \in 1..Len(db[mode]) :
             (/\ db[mode][i].settled
              /\ SameMovement(db[mode], db'[mode], i)
              /\ db'[mode][i].settled)
                 => db'[mode][i].pnl = db[mode][i].pnl]_vars

(* C10: each mode's movement log holds at most one row per movement_id. *)
C10_OneRowPerMovementId ==
    \A mode \in Modes : \A i, j \in 1..Len(db[mode]) :
        db[mode][i].movement_id = db[mode][j].movement_id => i = j

\* Reached: the same movement_id was recorded twice (two entries in the state
\* mirror) and a monitor insertion followed, in one mode's log.
C10_Witness ==
    \E mode \in Modes :
        /\ Len(db[mode]) = 2
        /\ \E i, j \in 1..Len(state_file) :
              /\ i < j
              /\ state_file[i].movement_id = state_file[j].movement_id
        /\ \E h \in Hashes : rows_written[h] = 1

\* Matcher-run helpers for the properties below.
MatcherRan == m_out # <<>>

MOut == m_out[1]

SlugMatches(movement, closed) ==
    {movement.market, normalize_market_slug(movement.market)}
        \cap {closed.slug, normalize_market_slug(closed.slug)} # {}

Stale(closed, movement) ==
    closed.timestamp > 0 /\ closed.timestamp < movement.timestamp

Countable(closed) == closed.total_bought > 0

(* C4: in one matcher run, for every slug s, the number of movements settled
   from closures of s is at most the number of closed positions of s with
   total_bought > 0 (each closed position is attributed to at most one
   movement). *)
C4_OneToOnePerRun ==
    MatcherRan =>
        \A s \in {m_closed[i].slug : i \in 1..Len(m_closed)} :
            Cardinality({k \in 1..Len(MOut.attr) : m_closed[MOut.attr[k]].slug = s})
                <= Cardinality({i \in 1..Len(m_closed) :
                                   m_closed[i].slug = s /\ Countable(m_closed[i])})

(* C6: a movement is settled only with an eligible closed position (positive
   total_bought, matching raw or normalized slug, not both timestamp > 0 and
   earlier than the movement's creation time) and then
   pnl * total_bought = copied_value * realized_pnl; and a timestamp-0 closure
   that is the run's only countable closure settles the first unsettled
   movement it matches, whatever that movement's creation time. *)
C6_OnlyEligibleClosureSettles ==
    MatcherRan =>
        /\ \A k \in 1..Len(MOut.settled) :
              LET movement == MOut.settled[k]
                  closed == m_closed[MOut.attr[k]]
              IN /\ Countable(closed)
                 /\ SlugMatches(movement, closed)
                 /\ ~Stale(closed, movement)
                 /\ movement.settled
                 /\ movement.pnl * closed.total_bought
                        = movement.copied_value * closed.realized_pnl
        /\ \A i \in 1..Len(m_closed) :
              (/\ m_closed[i].timestamp = 0
               /\ Countable(m_closed[i])
               /\ \A j \in 1..Len(m_closed) : Countable(m_closed[j]) => j = i
               /\ SlugMatches(m_state[1], m_closed[i]))
              => /\ MOut.movements[1].settled
                 /\ MOut.attr[1] = i
                 /\ MOut.movements[1].pnl * m_closed[i].total_bought
                        = m_state[1].copied_value * m_closed[i].realized_pnl

\* Reached: a matcher run that settled one movement from a timestamp-0 closure
\* and left another unsettled because its only closure predates it.
C6_Witness ==
    /\ MatcherRan
    /\ Len(m_state) = 2
    /\ Len(MOut.settled) = 1
    /\ m_closed[MOut.attr[1]].timestamp = 0
    /\ m_state[1].timestamp > 1
    /\ \E i \in 1..Len(m_closed) : Countable(m_closed[i]) /\ Stale(m_closed[i], m_state[2])

\* The countable closures of the slug family, in ascending timestamp order.
FamilyQueue == QueueOf(closed_sorted(m_closed), MarketBase)

\* FIFO distribution of one queue over the movements in state order: each
\* movement takes the first closure left that does not predate it.
RECURSIVE FifoPnls(_, _, _)
FifoPnls(i, q, out) ==
    IF i > Len(m_state) THEN out
    ELSE LET d == DropStale(q, m_state[i].timestamp)
         IN IF d = <<>>
            THEN FifoPnls(i + 1, d, out)
            ELSE FifoPnls(i + 1, Tail(d),
                          Append(out, [movement_id |-> m_state[i].movement_id,
                                       pnl |-> DecMul(m_state[i].copied_value,
                                                      Head(d).roi)]))

(* C7: the closures of one slug family that arrive in one matcher run are
   handed out in FIFO order: closures in ascending timestamp order, movements
   in state order, the k-th settled movement receiving the k-th eligible
   closure's ROI, pnl = copied_value * roi. *)
C7_FifoDistribution ==
    MatcherRan =>
        [k \in 1..Len(MOut.settled) |->
            [movement_id |-> MOut.settled[k].movement_id, pnl |-> MOut.settled[k].pnl]]
            = FifoPnls(1, FamilyQueue, <<>>)

\* C20: in every reachable runtime state, monitoring = true implies that a
\* configuration is present.
C20_MonitoringNeedsConfig == monitoring => config # <<>>

\* /api/start was accepted and the spawned task snapshotted the config.
C20_Witness ==
    /\ monitoring
    /\ config # <<>>
    /\ \E t \in Tasks : tasks[t].pc = "value"

\* C12: a monitor task that was running when POST /api/stop set
\* monitoring = false exits at its next top-of-cycle check and starts no
\* further cycle, whatever requests follow the stop.
C12_StoppedTaskExits ==
    [][\A t \in Tasks :
          (stopped[t] /\ tasks[t].pc = "top" /\ tasks'[t] # tasks[t])
              => tasks'[t].pc = "none"]_vars

\* C13: no error inside a cycle terminates the monitor loop, in real or in
\* simulation mode; a task ends only at the top of a cycle, when monitoring
\* is false or the configuration is absent.
C13_LoopEndsOnlyAtTop ==
    [][\A t \in Tasks :
          (tasks[t].pc # "none" /\ tasks'[t].pc = "none")
              => (tasks[t].pc = "top" /\ (~monitoring \/ config = <<>>))]_vars

\* C15: when the submission of the order for a trade fails, a warning is set,
\* no movement is written to the mirror or to the log, and the hash stays in
\* last_seen_hashes, so that the trade is not tried again.
C15_RejectedOrderLeavesNoMovement ==
    [][\A h \in Hashes :
          /\ (orders'[h] # orders[h] /\ ~Last(orders'[h]))
                => /\ warning' = <<"order">>
                   /\ state_file' = state_file
                   /\ db' = db
                   /\ h \in last_seen_hashes'
          /\ (orders[h] # <<>> /\ ~Last(orders[h]))
                => /\ orders'[h] = orders[h]
                   /\ h \in last_seen_hashes']_vars

\* The order for h1 was rejected: the warning is up and no row carries h1.
C15_Witness ==
    /\ orders["h1"] = <<FALSE>>
    /\ warning = <<"order">>
    /\ "h1" \in last_seen_hashes
    /\ \A i \in 1..Len(db["real"]) : db["real"][i].movement_id # "h1"
    /\ \A i \in 1..Len(state_file) : state_file[i].movement_id # "h1"

\* C16: an order is submitted only by a cycle whose configuration snapshot has
\* execute_orders = true and simulation_mode = false, and at most once per
\* trade hash.
C16_OrdersOnlyLiveAndOnce ==
    [][\A h \in Hashes :
          orders'[h] # orders[h]
            => /\ orders[h] = <<>>
               /\ \E t \in Tasks :
                     /\ tasks[t].pc = "finish"
                     /\ Head(tasks[t].trades) = h
                     /\ tasks[t].cfg[1].execute_orders
                     /\ ~tasks[t].cfg[1].simulation_mode]_vars

\* h1 was copied in simulation under a configuration with execute_orders set
\* and no order went out for it; h2 got its one order in real mode.
C16_Witness ==
    /\ \E i \in 1..Len(db["sim"]) : db["sim"][i].movement_id = "sim-h1"
    /\ config # <<>> /\ config[1].execute_orders /\ config[1].simulation_mode
    /\ orders["h1"] = <<>>
    /\ orders["h2"] = <<TRUE>>

(***************************************************************************)
(* Properties of the planner and of the slug normalizer                    *)
(***************************************************************************)
PlannerRan == plan_out # <<>> /\ ~plan_out[1].err

\* The quantities the plan is stated against, from the planner's arguments.
Proportional ==
    DecMul(plan_in.leader_movement_value,
           DecDiv(plan_in.cfg.allocated_funds, plan_in.leader_positions_value))

MaxTrade ==
    DecMul(plan_in.cfg.allocated_funds, DecDiv(plan_in.cfg.max_trade_pct, Dec(100)))

Available ==
    LET cap == DecMul(plan_in.cfg.allocated_funds,
                      DecDiv(plan_in.cfg.max_total_exposure_pct, Dec(100)))
        used == UnsettledCopied(plan_in.movements)
    IN IF cap - used > 0 THEN cap - used ELSE 0

Min3(a, b, c) ==
    CHOOSE v \in {a, b, c} : \A w \in {a, b, c} : v <= w

\* C17: for every validated configuration, every state and every pair of
\* inputs with leader_positions_value > 0 (leader_movement_value of any sign),
\* 0 <= capped_size <= min(max_trade, available_exposure) and
\* capped_size <= proportional_size.
C17_PlanWithinBounds ==
    (PlannerRan /\ plan_in.leader_positions_value > 0)
        => /\ 0 <= plan_out[1].capped_size
           /\ plan_out[1].capped_size <= MaxTrade
           /\ plan_out[1].capped_size <= Available
           /\ plan_out[1].capped_size <= plan_out[1].proportional_size

\* C17 as amended: capped_size <= proportional_size is owed only for a
\* leader_movement_value >= 0; for every sign, 0 <= capped_size <=
\* min(max_trade, available_exposure) and capped_size <= max(proportional_size, 0).
C17_PlanWithinBoundsOrZero ==
    (PlannerRan /\ plan_in.leader_positions_value > 0)
        => /\ 0 <= plan_out[1].capped_size
           /\ plan_out[1].capped_size <= MaxTrade
           /\ plan_out[1].capped_size <= Available
           /\ plan_in.leader_movement_value >= 0
                 => plan_out[1].capped_size <= plan_out[1].proportional_size
           /\ plan_in.leader_movement_value < 0 => plan_out[1].capped_size = 0

\* A plan for a negative leader movement: capped_size 0 above a negative
\* proportional_size, with exposure left.
C17_Witness ==
    /\ PlannerRan
    /\ plan_in.leader_movement_value < 0
    /\ plan_out[1].proportional_size < 0
    /\ plan_out[1].capped_size = 0
    /\ Available > 0

\* C18: the reason follows the priority below-minimum, no-exposure,
\* capped-by-max_trade_pct, capped-by-max_total_exposure_pct, ok; capped_size
\* is 0 in the below-minimum case and min(proportional, max_trade, available)
\* in every other case.
C18_ReasonPriority ==
    PlannerRan
        => LET capped == Min3(Proportional, MaxTrade, Available)
               below == capped < plan_in.cfg.min_copy_usd
           IN /\ plan_out[1].reason =
                    (IF below THEN "below minimum copy threshold"
                     ELSE IF Available <= 0 THEN "no exposure available"
                     ELSE IF Proportional > MaxTrade THEN "capped by max_trade_pct"
                     ELSE IF Proportional > Available
                          THEN "capped by max_total_exposure_pct"
                     ELSE "ok")
              /\ plan_out[1].capped_size = (IF below THEN 0 ELSE capped)

\* A plan where the exposure is used up and the capped amount is under the
\* minimum: the first of the two reasons wins.
C18_Witness ==
    /\ PlannerRan
    /\ Available = 0
    /\ plan_in.cfg.min_copy_usd > 0
    /\ plan_out[1].reason = "below minimum copy threshold"
    /\ plan_out[1].capped_size = 0

\* C19: market-slug normalization is idempotent for every slug, slugs whose
\* last two segments are both runs of 8 or more digits included.
C19_NormalizeIdempotent ==
    Len(slug_out) = 2 => slug_out[2] = slug_out[1]

EpochSegment(seg) == Len(seg) >= 8 /\ seg \in DigitSegments

\* A slug of three or more segments whose last two are both epoch-like.
TwoEpochSuffixes(slug) ==
    /\ Len(slug) >= 3
    /\ EpochSegment(slug[Len(slug)])
    /\ EpochSegment(slug[Len(slug) - 1])

\* C19 as amended: normalization strips one trailing segment of 8 or more
\* digits, so normalize(normalize(s)) = normalize(s) exactly for the slugs
\* that do not end in two such segments after a further segment.
C19_IdempotentButTwoEpochs ==
    Len(slug_out) = 2 => (slug_out[2] = slug_out[1] <=> ~TwoEpochSuffixes(slug_in))

\* One epoch suffix was stripped and the second application changed nothing.
C19_Witness ==
    /\ Len(slug_out) = 2
    /\ slug_out[1] # slug_in
    /\ slug_out[2] = slug_out[1]

(***************************************************************************)
(* Properties of the movement log                                          *)
(***************************************************************************)
\* C11: the rows appended to a movement log have pairwise distinct ids that
\* increase strictly in append order, no appended row is lost, and a settle
\* never changes a row's id, also when the read-then-rewrite of appends and
\* settles of several tasks or processes interleave.
C11_AppendedRowsKeptInOrder ==
    LET rows == db[LogMode]
    IN /\ \A i, j \in 1..Len(rows) : i # j => rows[i].id # rows[j].id
       /\ \A k \in 1..Len(log_appends) :
             \E i \in 1..Len(rows) :
                /\ rows[i].movement_id = log_appends[k].movement_id
                /\ rows[i].id = log_appends[k].id
       /\ \A k, l \in 1..Len(log_appends) :
             k < l => log_appends[k].id < log_appends[l].id

(***************************************************************************)
(* Progress of the monitor cycle                                           *)
(***************************************************************************)
InCycle == {"value", "settle", "trades", "plan", "finish"}

\* C14: a monitor cycle always reaches its end-of-cycle sleep: an outbound
\* call that never responds is abandoned by a timeout and the cycle goes on,
\* so the loop is never blocked forever.
C14_CycleReachesSleep ==
    \A t \in SingleTask : (tasks[t].pc \in InCycle) ~> (tasks[t].pc = "top")


\* The failures of the trades call whose message holds "429", "too many" or
\* "rate limit" in any case of letters.
RateLimitFailures ==
    {Failed(<<"HTTP", "429">>), Failed(<<"Too", "Many", "Requests">>),
     Failed(<<"RATE", "LIMIT", "exceeded">>)}

\* C22: in real mode, a trades fetch that fails with a rate-limit error sets
\* current_poll_interval_ms to max(current + 250, 500) and sets a warning; any
\* other error or a timeout leaves the interval unchanged; a successful
\* fetch clears the warning.
C22_RateLimitBump ==
    [][\A t \in Tasks :
          (/\ tasks[t].pc = "trades"
           /\ tasks'[t].pc # "trades"
           /\ ~tasks[t].cfg[1].simulation_mode)
          => IF tasks'[t].failure = <<>>
             THEN warning' = <<>> /\ current_poll_interval_ms' = current_poll_interval_ms
             ELSE IF tasks'[t].failure[1] \in RateLimitFailures
             THEN /\ current_poll_interval_ms' =
                        IF current_poll_interval_ms + 250 > 500
                        THEN current_poll_interval_ms + 250 ELSE 500
                  /\ warning' # <<>>
             ELSE current_poll_interval_ms' = current_poll_interval_ms]_vars

\* A realtime configuration polling every 50 ms met "Too Many Requests": the
\* interval went to 500 ms and the warning is set.
C22_Witness ==
    /\ config # <<>>
    /\ config[1].realtime_mode
    /\ tasks[1].failure = <<Failed(<<"Too", "Many", "Requests">>)>>
    /\ ~tasks[1].cfg[1].simulation_mode
    /\ current_poll_interval_ms = 500
    /\ warning = <<"rate_limit">>


\* What a configuration must satisfy to be accepted: positive funds,
\* percentages in (0, 100], no negative minimum, one mode at most and a
\* well-formed leader address (0x and 40 hex digits).
Acceptable(cfg) ==
    /\ cfg.allocated_funds > 0
    /\ cfg.max_trade_pct > 0 /\ cfg.max_trade_pct <= Dec(100)
    /\ cfg.max_total_exposure_pct > 0 /\ cfg.max_total_exposure_pct <= Dec(100)
    /\ cfg.min_copy_usd >= 0
    /\ ~(cfg.realtime_mode /\ cfg.simulation_mode)
    /\ cfg.leader = "0x0000000000000000000000000000000000000001"

\* C29: a configure request with non-positive funds, a percentage outside
\* (0, 100], a negative min_copy_usd, both modes set or a malformed leader
\* address is rejected and changes neither the config file nor the runtime, so
\* no such configuration is stored or met by the monitor loop.
C29_InvalidConfigNeverStored ==
    /\ config # <<>> => Acceptable(config[1])
    /\ config_file # <<>> => Acceptable(config_file[1])
    /\ \A t \in Tasks : tasks[t].cfg # <<>> => Acceptable(tasks[t].cfg[1])
    /\ warning # <<"leader">>


\* C21: whenever the runtime holds a config, current_poll_interval_ms is at
\* least the floor of that config (500 ms, or 50 ms in realtime or simulation
\* mode), across startup, reconfiguration and rate-limit bumps.
C21_PollAtLeastFloor ==
    (boot = "up" /\ config # <<>>)
        => current_poll_interval_ms >=
              (IF config[1].realtime_mode \/ config[1].simulation_mode THEN 50 ELSE 500)


\* C30: after a restart, a leader trade whose movement id was already in the
\* movement log is not planned, not submitted as an order and not recorded
\* again.
C30_LoggedTradeNotRedone ==
    [][\A t \in Tasks :
          (tasks[t].pc \in {"plan", "finish"} /\ tasks'[t] # tasks[t])
          => LET tx_hash == Head(tasks[t].trades)
             IN MovementId(tasks[t].cfg[1], tx_hash) \in boot_log
                   => /\ plan_runs'[tx_hash] = plan_runs[tx_hash]
                      /\ orders'[tx_hash] = orders[tx_hash]
                      /\ rows_written'[tx_hash] = rows_written[tx_hash]]_vars


\* C23: no task holds the RuntimeState mutex while it sleeps or performs I/O:
\* the monitor does not sleep with it, and a handler has released it before
\* it reads the movement log or writes its response.
C23_MutexNotHeldAcrossIo ==
    /\ mutex = "http" => conn.pc \notin {"state_read", "updates_read", "respond"}
    /\ mutex = "monitor" => \A t \in Tasks : tasks[t].pc # "leader_sleep"

\* A request on an /api/ path whose first line parses, and whether it carries
\* the token: in the X-API-Key header or in a token parameter of the query.
ApiRequest(request) ==
    /\ parse_request_line(request).ok
    /\ request.first[1][2].path \in {"/api/state", "/api/updates", "/api/configure",
                                     "/api/start", "/api/stop"}

CarriesToken(request) ==
    \/ request.key = <<Token>>
    \/ \E i \in 1..Len(request.first[1][2].query) :
          request.first[1][2].query[i] = Param("token", Token)

Refused ==
    /\ conn'.pc = "respond"
    /\ conn'.reply = Response(401, "unauthorized")
    /\ UNCHANGED programVars

\* C24: a request to an /api/ path is served if and only if it carries the
\* process token in the X-API-Key header or in a token query parameter, at
\* any place of the query; any other is answered 401 and changes nothing.
C24_ServedIffToken ==
    [][(conn.pc = "read" /\ conn'.pc # "read" /\ ApiRequest(conn.req))
          => (CarriesToken(conn.req) <=> ~Refused)]_vars

\* The value of the since parameter of a query, 0 when there is none.
SinceOf(query) ==
    IF \E i \in 1..Len(query) : query[i].k = "since" /\ query[i].eq
    THEN LET i == CHOOSE j \in 1..Len(query) : query[j].k = "since" /\ query[j].eq
         IN IF query[i].v = "1" THEN 1 ELSE 0
    ELSE 0

\* C25: an authorised GET /api/updates?since=X, by header or by token query
\* parameter, is answered with latest_id = the greatest id of the log of the
\* active mode (0 when empty) and the rows with id > X in ascending id order,
\* at most 200.
C25_UpdatesSince ==
    [][(conn.pc = "updates_read" /\ conn'.pc = "respond")
          => LET rows == db[current_mode_from_runtime]
                 X == SinceOf(conn.req.first[1][2].query)
                 ids == {rows[i].id : i \in 1..Len(rows)}
                 sent == conn'.reply.body.movements
             IN /\ conn'.reply.status = 200
                /\ conn'.reply.body.latest_id =
                      (IF ids = {} THEN 0 ELSE CHOOSE m \in ids : \A n \in ids : n <= m)
                /\ Len(sent) <= 200
                /\ \A k \in 1..Len(sent) : sent[k].id > X
                /\ \A k \in 1..(Len(sent) - 1) : sent[k].id < sent[k + 1].id
                /\ {sent[k] : k \in 1..Len(sent)} \subseteq {rows[i] : i \in 1..Len(rows)}
                /\ Cardinality({i \in 1..Len(rows) : rows[i].id > X}) <= 200
                      => Len(sent) = Cardinality({i \in 1..Len(rows) : rows[i].id > X})]_vars

\* What the control plane owes each request.
Malformed(request) ==
    \/ request.first = <<>>
    \/ Len(request.first[1]) < 2
    \/ /\ request.first[1][1] = "POST"
       /\ request.first[1][2].path = "/api/configure"
       /\ CarriesToken(request)
       /\ (~request.body.json \/ ~Acceptable(request.body.args[1]))

KnownRoute(request) ==
    <<request.first[1][1], request.first[1][2].path>> \in
        {<<"GET", "/">>, <<"GET", "/api/state">>, <<"GET", "/api/updates">>,
         <<"POST", "/api/configure">>, <<"POST", "/api/start">>, <<"POST", "/api/stop">>}

\* C27: every request receives a response with the matching status: 400 for a
\* malformed request (no request line, missing method or target, invalid
\* configure body), 404 for an unknown route, 401 for an unauthorised request
\* on /api/.
C27_EveryRequestAnswered ==
    [][(conn.pc # "idle" /\ conn'.pc = "idle")
          => /\ http_out'.status # 0
             /\ Malformed(conn.req) => http_out'.status = 400
             /\ (~Malformed(conn.req) /\ ApiRequest(conn.req) /\ ~CarriesToken(conn.req))
                   => http_out'.status = 401
             /\ (/\ ~Malformed(conn.req)
                 /\ ~(ApiRequest(conn.req) /\ ~CarriesToken(conn.req))
                 /\ ~KnownRoute(conn.req))
                   => http_out'.status = 404]_vars


\* C28: an operation that needs a config fails when there is none and changes
\* nothing: POST /api/start answers 400, leaves monitoring false and spawns no
\* task; the status and plan commands of the CLI fail with the error
\* "Copy-trader is not configured".
C28_NeedsConfig ==
    [][/\ (/\ conn.pc = "read"
           /\ conn'.pc # "read"
           /\ ApiRequest(conn.req)
           /\ CarriesToken(conn.req)
           /\ conn.req.first[1][1] = "POST"
           /\ conn.req.first[1][2].path = "/api/start"
           /\ config = <<>>)
          => /\ conn'.pc = "respond"
             /\ conn'.reply.status = 400
             /\ ~monitoring'
             /\ \A t \in Tasks : tasks'[t].pc = "none"
             /\ UNCHANGED programVars
       /\ (cli_out' # cli_out /\ config_file = <<>>)
          => /\ ~cli_out'[1].ok
             /\ Head(cli_out'[1].err) = "Copy-trader is not configured."
             /\ UNCHANGED programVars]_vars

\* Nothing is configured, POST /api/start was answered 400 and the plan
\* command failed.
C28_Witness ==
    /\ config = <<>>
    /\ config_file = <<>>
    /\ http_out = Response(400, "configure first")
    /\ cli_out # <<>>
    /\ cli_out[1].cmd = "plan"
    /\ ~cli_out[1].ok
    /\ ~monitoring


\* C26: GET /api/state returns as recent_movements the last (highest-id)
\* min(n, 300) rows of the movement log of the active mode in ascending id
\* order, whatever the size n of the log.
C26_RecentAreLast300 ==
    [][(conn.pc = "state_read" /\ conn'.pc = "respond")
          => LET rows == db[current_mode_from_runtime]
                 n == Len(rows)
                 k == IF n < 300 THEN n ELSE 300
                 sent == conn'.reply.body.recent_movements
             IN /\ Len(sent) = k
                /\ \A j \in 1..(k - 1) : sent[j].id < sent[j + 1].id
                /\ \A j \in 1..k :
                      /\ \E i \in 1..n : rows[i] = sent[j]
                      /\ Cardinality({i \in 1..n : rows[i].id > sent[j].id}) < k]_vars

(***************************************************************************)
(* C31: every config held in RuntimeState, and every config a configure    *)
(* operation wrote to the config file, has at most one of realtime_mode    *)
(* and simulation_mode set.                                                *)
(***************************************************************************)
C31_ModesExclusive ==
    \A held \in {config, config_file} :
       held # <<>> => ~(held[1].realtime_mode /\ held[1].simulation_mode)

\* The server was started over on a config file that a configure operation
\* wrote with one of the modes set, and holds that config.
C31_Witness ==
    /\ restarts > 0
    /\ boot = "up"
    /\ config # <<>>
    /\ config = config_file
    /\ config[1].realtime_mode \/ config[1].simulation_mode

(***************************************************************************)
(* C32: a simulation cycle handles the result of the trades fetch as a     *)
(* real cycle does: in either mode a rate-limit error raises               *)
(* current_poll_interval_ms to max(current + 250, 500), and any other      *)
(* outcome leaves the interval as it is.                                   *)
(***************************************************************************)
C32_SimulationBumpsAsReal ==
    [][\A t \in Tasks :
          (tasks[t].pc = "trades" /\ tasks'[t].pc # "trades")
          => IF tasks'[t].failure # <<>> /\ tasks'[t].failure[1] \in RateLimitFailures
             THEN current_poll_interval_ms' =
                     IF current_poll_interval_ms + 250 > 500
                     THEN current_poll_interval_ms + 250 ELSE 500
             ELSE current_poll_interval_ms' = current_poll_interval_ms]_vars

(***************************************************************************)
(* C33: in each monitor cycle, every movement the matcher returns as       *)
(* settled ends the settlement step with a row in the movement log of the  *)
(* cycle's mode that is settled and carries the same pnl, and with one     *)
(* more line in the settlement log, whichever mode recorded the movement.  *)
(***************************************************************************)
C33_SettledReachesActiveLog ==
    [][\A t \in Tasks :
          (tasks[t].pc = "settle" /\ tasks'[t].pc = "trades")
          => LET mode == mode_from_config(tasks[t].cfg[1])
             IN \A i \in 1..Len(state_file) :
                   (/\ i <= Len(state_file')
                    /\ ~state_file[i].settled
                    /\ state_file'[i].settled)
                   => LET m == state_file'[i]
                      IN /\ \E k \in 1..Len(db'[mode]) :
                               /\ db'[mode][k].movement_id = m.movement_id
                               /\ db'[mode][k].settled
                               /\ DecFromStr(db'[mode][k].pnl) = m.pnl
                         /\ settle_lines[m.movement_id] < MaxCount
                               => settle_lines'[m.movement_id]
                                     = settle_lines[m.movement_id] + 1]_vars

(***************************************************************************)
(* C34: a probe that ends in None or in a failed order-book fetch keeps    *)
(* the movement from being recorded in simulation mode; in real mode the   *)
(* order is submitted all the same when orders are executed, and unless    *)
(* the order is rejected the movement is recorded, in the state mirror     *)
(* and in the real log, with simulated_copy_price equal to the price of    *)
(* the leader's trade.                                                     *)
(***************************************************************************)
C34_ProbeBlocksOnlySimulation ==
    [][\A t \in Tasks : \A book \in LiquidityBooks :
          (/\ tasks[t].pc = "finish"
           /\ ProbeKind(book, TradeOf(Head(tasks[t].trades)), tasks[t].capped) # "some"
           /\ MonitorFinish(t, {book}))
          => LET cfg == tasks[t].cfg[1]
                 tx_hash == Head(tasks[t].trades)
                 trade == TradeOf(tx_hash)
                 recorded ==
                     /\ Len(state_file') = Len(tasks[t].state) + 1
                     /\ Last(state_file').movement_id = tx_hash
                     /\ Last(state_file').simulated_copy_price = trade.price
                     /\ \E k \in 1..Len(db'["real"]) :
                           /\ db'["real"][k].movement_id = tx_hash
                           /\ DecFromStr(db'["real"][k].simulated_copy_price) = trade.price
             IN IF cfg.simulation_mode
                THEN state_file' = state_file /\ db' = db
                ELSE IF cfg.execute_orders
                THEN /\ Len(orders'[tx_hash]) = Len(orders[tx_hash]) + 1
                     /\ Last(orders'[tx_hash]) => recorded
                ELSE recorded]_vars

\* A live order went out and the movement was recorded at the leader's price
\* although no book in reach of the monitor could price the copy; and a
\* simulation cycle has dropped the other trade for lack of liquidity.
C34_Witness ==
    /\ orders["h1"] = <<TRUE>>
    /\ \E i \in 1..Len(state_file) :
          /\ state_file[i].movement_id = "h1"
          /\ state_file[i].simulated_copy_price = TradeOf("h1").price
    /\ "h2" \in last_seen_hashes
    /\ warning \in {<<"liquidity">>, <<"liquidity_error">>}
    /\ \A i \in 1..Len(state_file) : state_file[i].movement_id # "sim-h2"

(***************************************************************************)
(* C35: the probe returns None exactly when the book cannot absorb the     *)
(* copy, and the average fill price otherwise. Buy: None iff the asks'     *)
(* size * price sum to less than copied_value, else copied_value over the  *)
(* shares bought walking the asks in book order. Sell: None iff the        *)
(* leader's price is not positive or the bids' sizes sum to less than      *)
(* copied_value / leader_price, else the proceeds of selling that many     *)
(* shares walking the bids in book order, over the shares.                 *)
(***************************************************************************)
\* What the levels before level i offer (in usdc for asks, in shares for bids).
NotionalBefore(asks, i) == SumSeq([j \in 1..(i - 1) |-> DecMul(asks[j].size, asks[j].price)])

SizeBefore(bids, i) == SumSeq([j \in 1..(i - 1) |-> bids[j].size])

\* What an order of `want` takes from a level that offers `offer`, the levels
\* before it having offered `before`.
TakenAt(want, before, offer) ==
    IF want <= before THEN 0
    ELSE IF want - before >= offer THEN offer
    ELSE want - before

ExpectedBuy(asks, copied) ==
    LET shares == SumSeq([i \in 1..Len(asks) |->
                            IF asks[i].price > 0
                            THEN DecDiv(TakenAt(copied, NotionalBefore(asks, i),
                                                DecMul(asks[i].size, asks[i].price)),
                                        asks[i].price)
                            ELSE 0])
    IN IF NotionalBefore(asks, Len(asks) + 1) < copied THEN <<>>
       ELSE <<DecDiv(copied, shares)>>

ExpectedSell(bids, copied, leader_price) ==
    IF leader_price <= 0 THEN <<>>
    ELSE LET want == DecDiv(copied, leader_price)
             usdc == SumSeq([i \in 1..Len(bids) |->
                               DecMul(TakenAt(want, SizeBefore(bids, i), bids[i].size),
                                      bids[i].price)])
         IN IF SizeBefore(bids, Len(bids) + 1) < want THEN <<>>
            ELSE <<DecDiv(usdc, want)>>

C35_ProbeIsAverageFill ==
    book_out # <<>>
    => book_out[1] =
          IF book_in.side \in {"BUY", "buy"}
          THEN ExpectedBuy(book_in.book.asks, book_in.copied_value_usd)
          ELSE ExpectedSell(book_in.book.bids, book_in.copied_value_usd, book_in.price)

\* A buy that takes the whole first ask and part of the second, at an average
\* price that is neither level's.
C35_Witness ==
    /\ book_out # <<>>
    /\ book_in.side = "BUY"
    /\ Len(book_in.book.asks) = 2
    /\ book_out[1] # <<>>
    /\ book_out[1][1] # book_in.book.asks[1].price
    /\ book_out[1][1] # book_in.book.asks[2].price
    /\ book_in.book.asks[1].price > 0

(***************************************************************************)
(* C36: for a market whose slug contains "-updown-5m" or "-updown-15m" and *)
(* a copied value v the fee filter computes entry = v * 70 / 10000,        *)
(* round_trip = 2 * entry, max_gross = 0.9 * v and max_net = max_gross -   *)
(* round_trip, rejects the copy exactly when max_net <= 0 and records      *)
(* round_trip as the estimated_total_fee_usd of an accepted copy; for      *)
(* every other market there is no filter and the recorded fee is 0.        *)
(***************************************************************************)
C36_FeeFilter ==
    fee_out # <<>>
    => LET v == fee_in.copied_value
           out == fee_out[1]
           entry == (v * 70) \div 10000
           max_gross == (v * 9) \div 10
       IN IF fee_in.market \in FastFeeMarkets
          THEN /\ out.fee_impact # <<>>
               /\ out.fee_impact[1].entry_fee_usd = entry
               /\ out.fee_impact[1].round_trip_fee_usd = 2 * entry
               /\ out.fee_impact[1].max_gross_profit_usd = max_gross
               /\ out.fee_impact[1].max_net_profit_usd = max_gross - 2 * entry
               /\ out.rejected <=> (max_gross - 2 * entry <= 0)
               /\ ~out.rejected => out.estimated_total_fee_usd = 2 * entry
          ELSE /\ out.fee_impact = <<>>
               /\ ~out.rejected
               /\ out.estimated_total_fee_usd = 0

\* The case of the source's own test: 10 usd on a 5-minute market costs 0.14
\* for the round trip and leaves 8.86 at most.
C36_Witness ==
    /\ fee_out # <<>>
    /\ fee_in.market = <<"btc", "updown", "5m", "1772278200">>
    /\ fee_in.copied_value = Dec(10)
    /\ ~fee_out[1].rejected
    /\ fee_out[1].estimated_total_fee_usd = 140
    /\ fee_out[1].fee_impact[1].max_net_profit_usd = 8860

\* C37: whenever the monitoring flag of the runtime is true (POST /api/start
\* is handled in one step, so none is under way) at least one monitor task is
\* alive: the flag never stays true after the monitor loop has ended.
C37_MonitoringHasTask ==
    monitoring => \E t \in Tasks : tasks[t].pc # "none"

\* C38: the fee filter never rejects a trade that passed the planner: when the
\* planner ran for a trade of a fast-fee market and planned a size
\* capped_size > 0, the cycle goes on to the liquidity probe with that size
\* (max_net = 0.886 * capped_size > 0), so no movement is discarded for fees.
C38_FeeFilterNeverRejects ==
    [][\A t \in Tasks :
          (tasks[t].pc = "plan" /\ plan_runs' # plan_runs)
              => LET trade == TradeOf(Head(tasks[t].trades))
                     plan == compute_plan(tasks[t].cfg[1], state_file,
                                          tasks[t].leader_value,
                                          DecMul(trade.size, trade.price))
                 IN (~plan.err /\ plan.capped_size > 0
                         /\ is_fast_market_with_fee(trade.slug))
                       => /\ tasks'[t].pc = "finish"
                          /\ tasks'[t].capped = plan.capped_size]_vars

C38_Witness ==
    \E t \in Tasks :
       /\ tasks[t].pc = "finish"
       /\ tasks[t].capped > 0
       /\ is_fast_market_with_fee(TradeOf(Head(tasks[t].trades)).slug)
       /\ trading_fee_impact_for_movement(TradeOf(Head(tasks[t].trades)).slug,
                                          tasks[t].capped)[1].max_net_profit_usd > 0

\* C39: a trade hash enters last_seen_hashes before the trade is planned and
\* never leaves it while the process runs, and the planner runs only for a
\* hash that was not in it: a trade that a cycle skipped (planned size <= 0,
\* missing liquidity or book error in simulation, order error) is not planned
\* again, neither after a settlement released exposure, nor after a
\* reconfiguration, nor after a switch between real and simulation mode.
C39_SkippedNeverPlannedAgain ==
    [][/\ last_seen_hashes \subseteq last_seen_hashes'
       /\ \A tx_hash \in Hashes :
             plan_runs'[tx_hash] # plan_runs[tx_hash]
                => /\ tx_hash \notin last_seen_hashes
                   /\ tx_hash \in last_seen_hashes']_vars

\* Reached: a hash was planned once and skipped (no movement of either mode
\* holds it), the trades call returns it again and the planner would now give
\* it a size under the configuration of the running cycle.
C39_Witness ==
    \E t \in Tasks :
       /\ tasks[t].pc = "plan"
       /\ LET tx_hash == Head(tasks[t].trades)
              trade == TradeOf(tx_hash)
              plan == compute_plan(tasks[t].cfg[1], state_file, tasks[t].leader_value,
                                   DecMul(trade.size, trade.price))
          IN /\ tx_hash \in last_seen_hashes
             /\ plan_runs[tx_hash] = 1
             /\ \A i \in 1..Len(state_file) :
                   state_file[i].movement_id \notin {tx_hash, "sim-" \o tx_hash}
             /\ ~plan.err
             /\ plan.capped_size > 0

\* The movements of the mirror that a mode recorded: simulation names its
\* movements sim-<hash>.
ModeMovements(movements, mode) ==
    SelectSeq(movements,
              LAMBDA m : (m.movement_id \in {"sim-" \o h : h \in Hashes}) <=> (mode = "sim"))

(***************************************************************************)
(* C40: when a monitor cycle completes, under whatever sequence of         *)
(* reconfigurations between real and simulation mode, each row of the      *)
(* active mode's movement log has the settled flag and the pnl of the      *)
(* movement with its movement_id in the state-file mirror, and the used    *)
(* exposure that /api/state computes from the log equals the unsettled     *)
(* copied value of that mode's movements in the mirror.                    *)
(***************************************************************************)
C40_LogAgreesWithMirror ==
    [][\A t \in Tasks :
          (/\ tasks[t].pc \notin {"top", "none"}
           /\ tasks'[t].pc = "top"
           /\ config' # <<>>
           /\ mode_from_config(config'[1]) = mode_from_config(tasks[t].cfg[1]))
          => LET mode == mode_from_config(tasks[t].cfg[1])
                 rows == db'[mode]
             IN /\ \A k \in 1..Len(rows) : \A i \in 1..Len(state_file') :
                      state_file'[i].movement_id = rows[k].movement_id
                         => /\ rows[k].settled = state_file'[i].settled
                            /\ DecFromStr(rows[k].pnl) = state_file'[i].pnl
                /\ DbUnsettledCopied(rows)
                      = UnsettledCopied(ModeMovements(state_file', mode))]_vars

====
